---- MODULE Spec2Model ----
(***************************************************************************)
(* Model of the deterministic computation and verification pipeline of     *)
(* hybrid_agent: calculators/utils.py (safe_div), parse/normalize.py       *)
(* (Normalizer), calculators/metric_builder.py (MetricBuilder),            *)
(* valuation/ (WACCCalculator, ValuationBuilder), gates/stage_zero.py      *)
(* (determine_path, StageZeroBuilder), agents/analyst.py (AnalystAgent)    *)
(* and agents/verifier.py (VerifierAgent).                                 *)
(*                                                                         *)
(* Python values are tagged records: None is [k |-> "none"], a float is    *)
(* [k |-> "num", n, d, e] (the exact rational n/d * 10^e in canonical      *)
(* form), a str is [k |-> "str", s], a dict is a TLA+ function whose       *)
(* DOMAIN is its key set, a list is a sequence.  Floats are modelled as    *)
(* exact rationals: rounding is not modelled.                              *)
(***************************************************************************)
EXTENDS Integers, Sequences, FiniteSets, TLC

VARIABLES
    pc,        \* which component's run this behaviour is, and how far it got
    quarter,   \* the raw CompanyQuarter handed to the component
    history,   \* the list of prior CompanyQuarters handed to the component
    dossier,   \* the dossier under verification (VerifierAgent.verify's argument)
    store,     \* the documents of the DocumentStore the agents are built with, or None
    args,      \* the arguments of the calculator call under check
    out        \* the value the last operation returned (or the exception it raised)

vars == <<pc, quarter, history, dossier, store, args, out>>

----------------------------------------------------------------------------
(* Python values *)

\* body with its names bound to the given values, each evaluated once
Bind(value, Body(_)) == Body(value)

Bind2(first, second, Body(_, _)) == Body(first, second)

Bind3(first, second, third, Body(_, _, _)) == Body(first, second, third)

None == [k |-> "none"]

Str(s) == [k |-> "str", s |-> s]

\* dict.get(key) / dict.get(key, default)
Get(dict, key) == IF key \in DOMAIN dict THEN dict[key] ELSE None

GetOr(dict, key, default) == IF key \in DOMAIN dict THEN dict[key] ELSE default

EmptyDict == [x \in {} |-> None]

\* isinstance(v, (int, float))
IsNum(v) == v.k = "num"

----------------------------------------------------------------------------
(* Exact arithmetic on floats: n/d * 10^e with d > 0 coprime to 10,         *)
(* gcd(n, d) = 1, 10 not dividing n, and 0 = 0/1 * 10^0.  The form is       *)
(* canonical, so two floats are equal iff their records are equal.          *)

RECURSIVE Gcd(_, _)
Gcd(a, b) == IF b = 0 THEN a ELSE Gcd(b, a % b)

Abs(i) == IF i < 0 THEN -i ELSE i

RECURSIVE Pow10(_)
Pow10(i) == IF i <= 0 THEN 1 ELSE 10 * Pow10(i - 1)

\* move the factors 2 and 5 of the denominator into the decimal exponent
RECURSIVE Strip25(_, _, _)
Strip25(n, d, e) ==
    IF d % 2 = 0 THEN Strip25(n * 5, d \div 2, e - 1)
    ELSE IF d % 5 = 0 THEN Strip25(n * 2, d \div 5, e - 1)
    ELSE <<n, d, e>>

\* move the factors 10 of the numerator into the decimal exponent
RECURSIVE Strip10(_, _, _)
Strip10(n, d, e) ==
    IF n % 10 = 0 THEN Strip10(n \div 10, d, e + 1)
    ELSE [k |-> "num", n |-> n, d |-> d, e |-> e]

Num(n0, d0, e0) ==
    IF n0 = 0 THEN [k |-> "num", n |-> 0, d |-> 1, e |-> 0]
    ELSE Bind2(IF d0 < 0 THEN -n0 ELSE n0, Abs(d0), LAMBDA n1, d1 :
         Bind(Gcd(Abs(n1), d1), LAMBDA g :
         Bind(Strip25(n1 \div g, d1 \div g, e0), LAMBDA t :
            Strip10(t[1], t[2], t[3]))))

Int2Num(i) == Num(i, 1, 0)

Zero == Int2Num(0)

NMul(a, b) == Num(a.n * b.n, a.d * b.d, a.e + b.e)

\* a / b for b # 0
NDiv(a, b) == Num(a.n * b.d, a.d * b.n, a.e - b.e)

NNeg(a) == [a EXCEPT !.n = -a.n]

NAbs(a) == [a EXCEPT !.n = Abs(a.n)]

NAdd(a, b) ==
    IF a.n = 0 THEN b
    ELSE IF b.n = 0 THEN a
    ELSE LET m == IF a.e < b.e THEN a.e ELSE b.e
         IN  Num(a.n * Pow10(a.e - m) * b.d + b.n * Pow10(b.e - m) * a.d, a.d * b.d, m)

NSub(a, b) == NAdd(a, NNeg(b))

\* x * 10^j < y for positive integers x, y (no intermediate beyond y)
ScaledLt(x, j, y) ==
    IF j >= 0
    THEN j <= 9 /\ x <= (y - 1) \div Pow10(j)
    ELSE (-j) > 9 \/ x \div Pow10(-j) < y

\* a < b
NLt(a, b) ==
    IF a.n <= 0 /\ b.n <= 0
    THEN IF a.n = 0 \/ b.n = 0
         THEN a.n < b.n
         ELSE ScaledLt((-b.n) * a.d, b.e - a.e, (-a.n) * b.d)
    ELSE IF a.n <= 0 \/ b.n <= 0
    THEN a.n <= 0 /\ b.n > 0
    ELSE ScaledLt(a.n * b.d, a.e - b.e, b.n * a.d)

NLe(a, b) == ~NLt(b, a)

----------------------------------------------------------------------------
(* models.py: CompanyQuarter *)

CompanyQuarter(ticker, period, income_stmt, balance_sheet, cash_flow, segments, metadata) ==
    [ticker |-> ticker, period |-> period, income_stmt |-> income_stmt,
     balance_sheet |-> balance_sheet, cash_flow |-> cash_flow,
     segments |-> segments, metadata |-> metadata]

\* dict[key] = value
Put(dict, key, value) == (key :> value) @@ dict

----------------------------------------------------------------------------
(* parse/normalize.py: Normalizer *)

FLOW_METRICS ==
    << <<"income_stmt", "Revenue">>, <<"income_stmt", "GrossProfit">>,
       <<"income_stmt", "EBIT">>, <<"cash_flow", "CFO">>, <<"cash_flow", "FCF">> >>

STOCK_METRICS ==
    << <<"balance_sheet", "AccountsReceivable">>, <<"balance_sheet", "Inventory">>,
       <<"balance_sheet", "TotalAssets">>, <<"balance_sheet", "Cash">>,
       <<"balance_sheet", "TotalEquity">> >>

\* the unit hints a unit_text of the model contains: word in unit_text.lower()
HintWords(text) ==
    CASE text = "USD in thousands" -> {"thousand"}
      [] text = "In Millions" -> {"million"}
      [] text = "BILLIONS" -> {"billion"}
      [] text = "thousands of millions" -> {"thousand", "million"}
      [] OTHER -> {}

\* the variant that lets a unit_text hint override metadata.unit_scale
resolve_unit_scale_hint_first(q) ==
    LET scale == Get(q.metadata, "unit_scale")
        unit_text == Get(q.metadata, "unit_text")
        words == IF unit_text.k = "str" THEN HintWords(unit_text.s) ELSE {}
    IN  IF "billion" \in words THEN Num(1, 1, 9)
        ELSE IF "million" \in words THEN Num(1, 1, 6)
        ELSE IF "thousand" \in words THEN Num(1, 1, 3)
        ELSE IF IsNum(scale) /\ NLt(Zero, scale) THEN scale
        ELSE Int2Num(1)

resolve_unit_scale(q) ==
    LET scale == Get(q.metadata, "unit_scale")
        unit_text == Get(q.metadata, "unit_text")
        words == IF unit_text.k = "str" THEN HintWords(unit_text.s) ELSE {}
    IN  IF IsNum(scale) /\ NLt(Zero, scale) THEN scale
        ELSE IF "billion" \in words THEN Num(1, 1, 9)
        ELSE IF "million" \in words THEN Num(1, 1, 6)
        ELSE IF "thousand" \in words THEN Num(1, 1, 3)
        ELSE Int2Num(1)

apply_scale_dict(data, scale) == [key \in DOMAIN data |-> NMul(data[key], scale)]

\* key.lower() for the statement keys of the model
Lower(key) ==
    CASE key = "Revenue" -> "revenue"
      [] key = "REVENUE" -> "revenue"
      [] key = "FCF" -> "fcf"
      [] key = "Fcf" -> "fcf"
      [] key = "EBIT" -> "ebit"
      [] key = "CFO" -> "cfo"
      [] key = "Cash" -> "cash"
      [] OTHER -> key

get_metric(q, section, field) ==
    LET container == q[section]
        alt == {key \in DOMAIN container : Lower(key) = Lower(field)}
    IN  IF field \in DOMAIN container THEN container[field]
        ELSE IF alt # {} THEN container[CHOOSE key \in alt : TRUE]
        ELSE None

\* the TTM label of a period string: the (\d{4})[-]?Q?(\d) match, else TTM-<period>
ttm_label(period, metadata) ==
    CASE period = "2024Q4" -> "TTM-2024Q4"
      [] period = "2024-Q3" -> "TTM-2024Q3"
      [] period = "FY24" ->
            (IF Get(metadata, "period_label") # None
             THEN "TTM-label"
             ELSE "TTM-FY24")
      [] OTHER -> "TTM"

\* normalize_quarter(past, history=None, compute_ttm=False)
normalize_no_ttm(q) ==
    Bind2(resolve_unit_scale(q), GetOr(q.metadata, "currency", Str("USD")),
          LAMBDA scale, currency :
        [q EXCEPT !.income_stmt = apply_scale_dict(q.income_stmt, scale),
                  !.balance_sheet = apply_scale_dict(q.balance_sheet, scale),
                  !.cash_flow = apply_scale_dict(q.cash_flow, scale),
                  !.segments = [name \in DOMAIN q.segments |->
                                    apply_scale_dict(q.segments[name], scale)],
                  !.metadata = Put(Put(Put(q.metadata, "currency", currency),
                                       "original_unit_scale", scale),
                                   "unit_scale", Int2Num(1))])

\* history[-3:]
LastN(seq, n) ==
    IF Len(seq) <= n THEN seq ELSE SubSeq(seq, Len(seq) - n + 1, Len(seq))

RECURSIVE SumField(_, _, _, _)
SumField(total, past, section, field) ==
    IF past = <<>> THEN total
    ELSE Bind(get_metric(Head(past), section, field), LAMBDA value :
            SumField(IF value # None THEN NAdd(total, value) ELSE total,
                     Tail(past), section, field))

\* the variant that sums the prior periods as reported, without scaling them
compute_ttm_unscaled_priors(current, hist) ==
    Bind(LastN(hist, 3), LAMBDA normalized_history :
    LET flows == {i \in 1..Len(FLOW_METRICS) :
                    get_metric(current, FLOW_METRICS[i][1], FLOW_METRICS[i][2]) # None}
        stocks == {i \in 1..Len(STOCK_METRICS) :
                    get_metric(current, STOCK_METRICS[i][1], STOCK_METRICS[i][2]) # None}
        fields == {FLOW_METRICS[i][2] : i \in flows} \cup {STOCK_METRICS[i][2] : i \in stocks}
    IN  [field \in fields |->
            IF \E i \in flows : FLOW_METRICS[i][2] = field
            THEN LET i == CHOOSE j \in flows : FLOW_METRICS[j][2] = field
                 IN  SumField(get_metric(current, FLOW_METRICS[i][1], field),
                              normalized_history, FLOW_METRICS[i][1], field)
            ELSE LET i == CHOOSE j \in stocks : STOCK_METRICS[j][2] = field
                 IN  get_metric(current, STOCK_METRICS[i][1], field)])

compute_ttm(current, hist) ==
    Bind(LastN(hist, 3), LAMBDA last3 :
    Bind([i \in 1..Len(last3) |-> normalize_no_ttm(last3[i])], LAMBDA normalized_history :
    LET flows == {i \in 1..Len(FLOW_METRICS) :
                    get_metric(current, FLOW_METRICS[i][1], FLOW_METRICS[i][2]) # None}
        stocks == {i \in 1..Len(STOCK_METRICS) :
                    get_metric(current, STOCK_METRICS[i][1], STOCK_METRICS[i][2]) # None}
        fields == {FLOW_METRICS[i][2] : i \in flows} \cup {STOCK_METRICS[i][2] : i \in stocks}
    IN  [field \in fields |->
            IF \E i \in flows : FLOW_METRICS[i][2] = field
            THEN LET i == CHOOSE j \in flows : FLOW_METRICS[j][2] = field
                 IN  SumField(get_metric(current, FLOW_METRICS[i][1], field),
                              normalized_history, FLOW_METRICS[i][1], field)
            ELSE LET i == CHOOSE j \in stocks : STOCK_METRICS[j][2] = field
                 IN  get_metric(current, STOCK_METRICS[i][1], field)]))

\* normalize_quarter(quarter, history) with compute_ttm=True
normalize_quarter(q, hist) ==
    Bind(normalize_no_ttm(q), LAMBDA normalized :
        [normalized EXCEPT !.metadata =
            Put(Put(normalized.metadata, "ttm", compute_ttm(normalized, hist)),
                "ttm_period", Str(ttm_label(normalized.period, normalized.metadata)))])

----------------------------------------------------------------------------
(* calculators/utils.py, working_capital.py, accruals.py, balance_sheet.py,  *)
(* roic.py: each returns None for "no value"                                 *)

DivEpsilon == Num(1, 1, -12)

\* the variant that guards against an exactly zero denominator only
safe_div_zero_only(numerator, denominator) ==
    IF denominator = None THEN None
    ELSE IF denominator = Zero THEN None
    ELSE IF numerator = None THEN None
    ELSE NDiv(numerator, denominator)

safe_div(numerator, denominator) ==
    IF denominator = None THEN None
    ELSE IF NLt(NAbs(denominator), DivEpsilon) THEN None
    ELSE IF numerator = None THEN None
    ELSE NDiv(numerator, denominator)

DaysInPeriod == 365

days_sales_outstanding(accounts_receivable, revenue) ==
    LET ratio == safe_div(accounts_receivable, revenue)
    IN  IF ratio = None THEN None ELSE NMul(ratio, Int2Num(DaysInPeriod))

days_inventory_on_hand(inventory, cost_of_goods_sold) ==
    LET ratio == safe_div(inventory, cost_of_goods_sold)
    IN  IF ratio = None THEN None ELSE NMul(ratio, Int2Num(DaysInPeriod))

days_payables_outstanding(accounts_payable, cost_of_goods_sold) ==
    LET ratio == safe_div(accounts_payable, cost_of_goods_sold)
    IN  IF ratio = None THEN None ELSE NMul(ratio, Int2Num(DaysInPeriod))

cash_conversion_cycle(dso, dio, dpo) ==
    IF dso = None \/ dio = None \/ dpo = None THEN None
    ELSE NSub(NAdd(dso, dio), dpo)

accruals_ratio(net_income, cash_flow_from_operations, average_total_assets) ==
    IF net_income = None \/ cash_flow_from_operations = None THEN None
    ELSE safe_div(NSub(net_income, cash_flow_from_operations), average_total_assets)

\* the variant that counts a missing debt or cash figure as zero
net_debt_or_zero(total_debt, cash_and_equivalents) ==
    NSub(IF total_debt = None THEN Zero ELSE total_debt,
         IF cash_and_equivalents = None THEN Zero ELSE cash_and_equivalents)

net_debt(total_debt, cash_and_equivalents) ==
    IF total_debt = None \/ cash_and_equivalents = None THEN None
    ELSE NSub(total_debt, cash_and_equivalents)

net_leverage_ratio(total_debt, cash_and_equivalents, ebitda) ==
    LET leverage == net_debt(total_debt, cash_and_equivalents)
    IN  IF leverage = None THEN None ELSE safe_div(leverage, ebitda)

nopat(ebit, tax_rate) ==
    IF ebit = None \/ tax_rate = None THEN None
    ELSE NMul(ebit, NSub(Int2Num(1), tax_rate))

\* invested_capital with non_operating_assets = 0.0
invested_capital(total_equity, total_debt, cash_and_equivalents) ==
    IF total_equity = None \/ total_debt = None \/ cash_and_equivalents = None THEN None
    ELSE NSub(NSub(NAdd(total_equity, total_debt), cash_and_equivalents), Zero)

roic(nopat_value, invested_capital_value) == safe_div(nopat_value, invested_capital_value)

----------------------------------------------------------------------------
(* calculators/metric_builder.py: MetricBuilder.  A Metric is a record of    *)
(* the fields of models.Metric.  The provenance entries of the model hold    *)
(* strings (the types models.Metric accepts), so that constructing a Metric  *)
(* does not fail validation.                                                 *)

SYSTEM_DOC_ID == Str("SYSTEM-DERIVED")

SYSTEM_URL == Str("https://localhost/system")

SYSTEM_QUOTE == Str("Derived from normalized statements")

ABSTAIN == Str("ABSTAIN")

ProvenanceFields == {"source_doc_id", "page_or_section", "quote", "url"}

\* isinstance(v, dict): the tagged records all carry the field k
IsDict(v) == "k" \notin DOMAIN v

lookup_provenance(name, q) ==
    LET main == Get(q.metadata, "provenance")
        valuation_meta == Get(q.metadata, "valuation")
        valuation_prov == IF IsDict(valuation_meta)
                          THEN Get(valuation_meta, "provenance") ELSE None
        provenance_sources ==
            (IF IsDict(main) THEN <<main>> ELSE <<>>)
                \o (IF IsDict(valuation_prov) THEN <<valuation_prov>> ELSE <<>>)
        hits == {i \in 1 .. Len(provenance_sources) :
                    IsDict(Get(provenance_sources[i], name))}
    IN  IF hits = {} THEN EmptyDict
        ELSE provenance_sources[CHOOSE i \in hits : \A j \in hits : i <= j][name]

metric_from_value(name, value, unit, q, inputs) ==
    Bind(lookup_provenance(name, q), LAMBDA source_info :
        [name |-> name,
         value |-> IF value = None THEN ABSTAIN ELSE value,
         unit |-> unit,
         period |-> q.period,
         source_doc_id |-> GetOr(source_info, "source_doc_id", SYSTEM_DOC_ID),
         page_or_section |-> GetOr(source_info, "page_or_section", Str("n/a")),
         quote |-> GetOr(source_info, "quote", SYSTEM_QUOTE),
         url |-> GetOr(source_info, "url", SYSTEM_URL),
         inputs |-> inputs,
         metadata |-> [key \in DOMAIN source_info \ ProvenanceFields |-> source_info[key]]])

build_fcf(q) ==
    LET fcf == Get(q.cash_flow, "FCF")
    IN  metric_from_value("FCF",
            IF fcf = None /\ "CFO" \in DOMAIN q.cash_flow /\ "CapEx" \in DOMAIN q.cash_flow
            THEN NAdd(q.cash_flow["CFO"], q.cash_flow["CapEx"])
            ELSE fcf,
            "USD", q, <<"CFO", "CapEx">>)

\* quarter.income_stmt.get("CostOfGoodsSold", quarter.income_stmt.get("COGS"))
CogsOf(q) == GetOr(q.income_stmt, "CostOfGoodsSold", Get(q.income_stmt, "COGS"))

build_dso(q) ==
    metric_from_value("DSO",
        days_sales_outstanding(Get(q.balance_sheet, "AccountsReceivable"),
                               Get(q.income_stmt, "Revenue")),
        "days", q, <<"AccountsReceivable", "Revenue">>)

build_dih(q) ==
    metric_from_value("DIH",
        days_inventory_on_hand(Get(q.balance_sheet, "Inventory"), CogsOf(q)),
        "days", q, <<"Inventory", "COGS">>)

build_dpo(q) ==
    metric_from_value("DPO",
        days_payables_outstanding(Get(q.balance_sheet, "AccountsPayable"), CogsOf(q)),
        "days", q, <<"AccountsPayable", "COGS">>)

build_ccc(q) ==
    metric_from_value("CCC",
        cash_conversion_cycle(
            days_sales_outstanding(Get(q.balance_sheet, "AccountsReceivable"),
                                   Get(q.income_stmt, "Revenue")),
            days_inventory_on_hand(Get(q.balance_sheet, "Inventory"), CogsOf(q)),
            days_payables_outstanding(Get(q.balance_sheet, "AccountsPayable"), CogsOf(q))),
        "days", q, <<"DSO", "DIH", "DPO">>)

build_accruals(q) ==
    metric_from_value("Accruals Ratio",
        accruals_ratio(Get(q.income_stmt, "NetIncome"), Get(q.cash_flow, "CFO"),
                       Get(q.balance_sheet, "TotalAssets")),
        "ratio", q, <<"NetIncome", "CFO", "TotalAssets">>)

build_net_leverage(q) ==
    metric_from_value("Net Debt / EBITDA",
        net_leverage_ratio(Get(q.balance_sheet, "TotalDebt"), Get(q.balance_sheet, "Cash"),
                           GetOr(q.income_stmt, "EBITDA", Get(q.income_stmt, "EBIT"))),
        "x", q, <<"TotalDebt", "Cash", "EBITDA">>)

RoicTaxRate == Num(21, 100, 0)

build_roic(q) ==
    LET nopat_value == nopat(Get(q.income_stmt, "EBIT"), RoicTaxRate)
        invested == invested_capital(Get(q.balance_sheet, "TotalEquity"),
                                     Get(q.balance_sheet, "TotalDebt"),
                                     Get(q.balance_sheet, "Cash"))
    IN  metric_from_value("ROIC",
            IF nopat_value # None THEN roic(nopat_value, invested) ELSE None,
            "ratio", q, <<"EBIT", "TaxRate", "InvestedCapital">>)

MetricBuilder_build(q) ==
    << metric_from_value("Revenue", Get(q.income_stmt, "Revenue"), "USD", q, None),
       build_fcf(q), build_dso(q), build_dih(q), build_dpo(q), build_ccc(q),
       build_accruals(q), build_net_leverage(q), build_roic(q),
       metric_from_value("NRR", None, "ratio", q, <<"subscription_disclosures">>) >>

----------------------------------------------------------------------------
(* Exceptions: an operation that raises yields [k |-> "raised", exc |-> ...] *)

Raised(exc) == [k |-> "raised", exc |-> exc]

IsRaised(v) == "k" \in DOMAIN v /\ v.k = "raised"

----------------------------------------------------------------------------
(* valuation/wacc.py: WACCCalculator *)

cost_of_equity(rf, beta, erp, adjustment_bps) ==
    NAdd(NAdd(rf, NMul(beta, erp)), NDiv(adjustment_bps, Int2Num(10000)))

\* the variant that takes the market values as given, negative ones included
weights_unfloored(equity_value, debt_value) ==
    Bind(NAdd(equity_value, debt_value), LAMBDA total :
        IF total = Zero THEN <<Int2Num(1), Zero>>
        ELSE <<NDiv(equity_value, total), NDiv(debt_value, total)>>)

weights(equity_value, debt_value) ==
    Bind2(IF NLt(equity_value, Zero) THEN Zero ELSE equity_value,
          IF NLt(debt_value, Zero) THEN Zero ELSE debt_value,
          LAMBDA equity, debt :
    Bind(NAdd(equity, debt), LAMBDA total :
        IF total = Zero THEN <<Int2Num(1), Zero>>
        ELSE <<NDiv(equity, total), NDiv(debt, total)>>))

\* None / 10_000.0 raises TypeError when equity_adjustment_bps is None
derive(params) ==
    IF params.equity_adjustment_bps = None THEN Raised("TypeError")
    ELSE
    Bind3(cost_of_equity(params.risk_free_rate, params.beta,
                         params.equity_risk_premium, params.equity_adjustment_bps),
          NMul(params.cost_of_debt, NSub(Int2Num(1), params.tax_rate)),
          weights(params.market_equity_value, params.market_debt_value),
          LAMBDA coe, cod, w :
    Bind(NAdd(NMul(coe, w[1]), NMul(cod, w[2])), LAMBDA wacc_point :
    Bind(NSub(wacc_point, Num(1, 100, 0)), LAMBDA low :
        [point |-> wacc_point,
         lower |-> IF NLt(low, Zero) THEN Zero ELSE low,
         upper |-> NAdd(wacc_point, Num(1, 100, 0)),
         cost_of_equity |-> coe,
         cost_of_debt_after_tax |-> cod,
         weights |-> [equity |-> w[1], debt |-> w[2]],
         inputs |-> [rf |-> params.risk_free_rate, erp |-> params.equity_risk_premium,
                     beta |-> params.beta, rd |-> params.cost_of_debt,
                     tax |-> params.tax_rate, weights_equity |-> w[1],
                     weights_debt |-> w[2],
                     equity_adjustment_bps |-> params.equity_adjustment_bps]])))

----------------------------------------------------------------------------
(* calculators/dcf.py: run_irr_analysis and IRRAnalysis are used by          *)
(* ValuationBuilder.build and by the tests, but are not part of dcf.py as    *)
(* given.  The analysis is modelled from the specification: a base IRR, one  *)
(* IRR per non-Base scenario and the four sensitivity points.  An IRR is     *)
(* kept as the term Irr(inputs), not evaluated.                              *)

Irr(price, shares, net_debt_value, wacc, terminal_g, fcf_path) ==
    [k |-> "irr", price |-> price, shares |-> shares, net_debt |-> net_debt_value,
     wacc |-> wacc, terminal_g |-> terminal_g, fcf_path |-> fcf_path]

ScenarioOrder == <<"Bull", "Bear">>

run_irr_analysis(price, shares, net_debt_value, wacc, terminal_g, fcf_path, scenarios) ==
    LET names == SelectSeq(ScenarioOrder, LAMBDA nm : nm \in DOMAIN scenarios)
    IN  [irr |-> Irr(price, shares, net_debt_value, wacc, terminal_g, fcf_path),
         scenarios |-> [i \in 1 .. Len(names) |->
                          [name |-> names[i], fcf_path |-> scenarios[names[i]],
                           irr |-> Irr(price, shares, net_debt_value, wacc, terminal_g,
                                       scenarios[names[i]])]],
         sensitivity |->
            [key \in {"wacc+100bps", "wacc-100bps", "g+50bps", "g-50bps"} |->
                CASE key = "wacc+100bps" -> NAdd(wacc, Num(1, 100, 0))
                  [] key = "wacc-100bps" -> NSub(wacc, Num(1, 100, 0))
                  [] key = "g+50bps" -> NAdd(terminal_g, Num(5, 1000, 0))
                  [] key = "g-50bps" -> NSub(terminal_g, Num(5, 1000, 0))]]

----------------------------------------------------------------------------
(* valuation/service.py: ValuationBuilder *)

\* float(s) for the strings of the model: None when it raises ValueError
ParseFloat(s) == IF s = "5" THEN Int2Num(5) ELSE None

\* _safe_float(value, default=default): None when neither parses
safe_float(value, default) ==
    IF value = None THEN default
    ELSE IF IsNum(value) THEN value
    ELSE IF value.k = "str" /\ ParseFloat(value.s) # None THEN ParseFloat(value.s)
    ELSE default

RequiredInputs ==
    {"risk_free_rate", "equity_risk_premium", "beta", "cost_of_debt", "tax_rate",
     "market_equity_value", "market_debt_value"}

\* _wacc_inputs: Raised("ValueError") for a missing, null or unparsable required input
wacc_inputs(meta) ==
    IF \E key \in RequiredInputs : key \notin DOMAIN meta \/ safe_float(meta[key], None) = None
    THEN Raised("ValueError")
    ELSE [risk_free_rate |-> safe_float(meta["risk_free_rate"], None),
          equity_risk_premium |-> safe_float(meta["equity_risk_premium"], None),
          beta |-> safe_float(meta["beta"], None),
          cost_of_debt |-> safe_float(meta["cost_of_debt"], None),
          tax_rate |-> safe_float(meta["tax_rate"], None),
          market_equity_value |-> safe_float(meta["market_equity_value"], None),
          market_debt_value |-> safe_float(meta["market_debt_value"], None),
          equity_adjustment_bps |->
              safe_float(GetOr(meta, "equity_adjustment_bps", Zero), None)]

terminal_inputs(meta) ==
    LET raw == Get(meta, "terminal_inputs")
    IN  IF ~IsDict(raw) THEN [inflation |-> Num(2, 100, 0), real_gdp |-> Num(1, 100, 0)]
        ELSE [inflation |-> safe_float(Get(raw, "inflation"), Num(2, 100, 0)),
              real_gdp |-> safe_float(Get(raw, "real_gdp"), Num(1, 100, 0))]

NMax(a, b) == IF NLt(a, b) THEN b ELSE a

NMin(a, b) == IF NLt(b, a) THEN b ELSE a

terminal_growth(inputs, wacc_point) ==
    NMin(NAdd(inputs.inflation, inputs.real_gdp),
         NMax(NSub(wacc_point, Num(5, 1000, 0)), Zero))

hurdle_details(meta) ==
    LET raw == Get(meta, "hurdle")
    IN  IF ~IsDict(raw)
        THEN [base |-> Num(15, 100, 0), adjustment_bps |-> Zero,
              rationale |-> Str("Base policy (15%).")]
        ELSE [base |-> safe_float(Get(raw, "base"), Num(15, 100, 0)),
              adjustment_bps |-> safe_float(Get(raw, "adjustment_bps"), Zero),
              rationale |-> GetOr(raw, "rationale", Str("Deterministic hurdle policy."))]

compute_hurdle(details) ==
    NMax(NAdd(safe_float(details.base, Num(15, 100, 0)),
              NDiv(safe_float(details.adjustment_bps, Zero), Int2Num(10000))),
         Zero)

\* _pricing_inputs: None, or <<price, shares, net_debt>>
pricing_inputs(meta, q) ==
    LET price == safe_float(Get(meta, "share_price"), None)
        shares == safe_float(Get(meta, "shares_diluted"), None)
        declared == safe_float(Get(meta, "net_debt"), None)
        debt == safe_float(Get(q.balance_sheet, "TotalDebt"), Zero)
        cash == safe_float(Get(q.balance_sheet, "Cash"), Zero)
        net == IF declared = None THEN NSub(debt, cash) ELSE declared
    IN  IF price = None \/ shares = None THEN None ELSE <<price, shares, net>>

\* _fcf_paths: Raised("ValueError") when fcf_paths is no dict or a path is empty
fcf_paths(meta) ==
    LET raw_paths == Get(meta, "fcf_paths")
    IN  IF ~IsDict(raw_paths) THEN Raised("ValueError")
        ELSE IF \E name \in DOMAIN raw_paths : Len(raw_paths[name]) = 0
        THEN Raised("ValueError")
        ELSE raw_paths

\* ValuationBuilder.build: a ValuationBundle, None, or the exception raised
ValuationBuilder_build(q) ==
    Bind(Get(q.metadata, "valuation"), LAMBDA meta :
    IF ~IsDict(meta) THEN None
    ELSE
    Bind(wacc_inputs(meta), LAMBDA inputs :
    IF IsRaised(inputs) THEN None
    ELSE
    Bind(derive(inputs), LAMBDA wacc_result :
    IF IsRaised(wacc_result) THEN wacc_result
    ELSE
    Bind2(terminal_inputs(meta), hurdle_details(meta), LAMBDA t_inputs, h_details :
    Bind3(terminal_growth(t_inputs, wacc_result.point), pricing_inputs(meta, q),
          fcf_paths(meta), LAMBDA t_growth, pricing, paths :
        IF pricing = None THEN None
        ELSE IF IsRaised(paths) THEN None
        ELSE IF "Base" \notin DOMAIN paths THEN None
        ELSE
        [inputs |-> inputs,
         wacc |-> wacc_result,
         terminal_growth |-> t_growth,
         terminal_inputs |-> t_inputs,
         hurdle |-> compute_hurdle(h_details),
         hurdle_details |-> h_details,
         irr_analysis |->
            run_irr_analysis(pricing[1], pricing[2], pricing[3],
                wacc_result.point, t_growth, paths["Base"],
                [name \in DOMAIN paths \ {"Base"} |-> paths[name]]),
         fcf_paths |-> paths,
         price |-> pricing[1],
         shares |-> pricing[2],
         net_debt |-> pricing[3],
         ttm_fcf |-> safe_float(Get(Get(q.metadata, "ttm"), "FCF"), None),
         notes |-> GetOr(meta, "notes", Str(""))])))))

----------------------------------------------------------------------------
(* calculate/service.py: CalculationService *)

\* the variant that leaves out the hurdle metric
build_valuation_metrics_without_hurdle(q, valuation) ==
    << metric_from_value("WACC-point", valuation.wacc.point, "ratio", q,
            <<"risk_free_rate", "equity_risk_premium", "beta", "cost_of_debt">>),
       metric_from_value("WACC-lower", valuation.wacc.lower, "ratio", q, <<"WACC-point">>),
       metric_from_value("WACC-upper", valuation.wacc.upper, "ratio", q, <<"WACC-point">>),
       metric_from_value("Cost of Equity", valuation.wacc.cost_of_equity, "ratio", q,
            <<"risk_free_rate", "beta", "equity_risk_premium">>),
       metric_from_value("Cost of Debt (after tax)", valuation.wacc.cost_of_debt_after_tax,
            "ratio", q, <<"cost_of_debt", "tax_rate">>),
       metric_from_value("Terminal Growth", valuation.terminal_growth, "ratio", q,
            <<"inflation", "real_gdp">>) >>

build_valuation_metrics(q, valuation) ==
    << metric_from_value("WACC-point", valuation.wacc.point, "ratio", q,
            <<"risk_free_rate", "equity_risk_premium", "beta", "cost_of_debt">>),
       metric_from_value("WACC-lower", valuation.wacc.lower, "ratio", q, <<"WACC-point">>),
       metric_from_value("WACC-upper", valuation.wacc.upper, "ratio", q, <<"WACC-point">>),
       metric_from_value("Cost of Equity", valuation.wacc.cost_of_equity, "ratio", q,
            <<"risk_free_rate", "beta", "equity_risk_premium">>),
       metric_from_value("Cost of Debt (after tax)", valuation.wacc.cost_of_debt_after_tax,
            "ratio", q, <<"cost_of_debt", "tax_rate">>),
       metric_from_value("Terminal Growth", valuation.terminal_growth, "ratio", q,
            <<"inflation", "real_gdp">>),
       metric_from_value("Hurdle IRR", valuation.hurdle, "ratio", q,
            <<"policy_base", "adjustment_bps">>) >>

\* CalculationService.calculate: a CalculationResult, or the exception raised
calculate(q, hist) ==
    Bind([i \in 1 .. Len(hist) |-> normalize_quarter(hist[i], <<>>)],
         LAMBDA normalized_history :
    Bind(normalize_quarter(q, normalized_history), LAMBDA normalized :
    Bind2(MetricBuilder_build(normalized), ValuationBuilder_build(normalized),
          LAMBDA base, valuation :
        IF IsRaised(valuation) THEN valuation
        ELSE [ticker |-> normalized.ticker,
              period |-> normalized.period,
              metrics |-> IF valuation # None
                          THEN base \o build_valuation_metrics(normalized, valuation)
                          ELSE base,
              quarter |-> normalized,
              history |-> normalized_history,
              valuation |-> valuation])))

----------------------------------------------------------------------------
(* Python truthiness, lists and formatted strings.  A list in a position    *)
(* that can hold any value is [k |-> "list", v |-> <<...>>]; a string built *)
(* by an f-string is [k |-> "str", parts |-> <<...>>], its fragments.       *)

List(seq) == [k |-> "list", v |-> seq]

FStr(parts) == [k |-> "str", parts |-> parts]

IsList(v) == "k" \in DOMAIN v /\ v.k = "list"

IsStr(v) == "k" \in DOMAIN v /\ v.k = "str"

\* bool(v)
Truthy(v) ==
    IF IsDict(v) THEN DOMAIN v # {}
    ELSE CASE v.k = "none" -> FALSE
           [] v.k = "num" -> v # Zero
           [] v.k = "str" -> ("s" \in DOMAIN v => v.s # "")
           [] v.k = "list" -> Len(v.v) > 0
           [] OTHER -> TRUE

\* a or b
Or(a, b) == IF Truthy(a) THEN a ELSE b

----------------------------------------------------------------------------
(* gates/stage_zero.py: StageZeroBuilder and determine_path *)

FLIP_TRIGGER_HORIZON_DAYS == 90

\* {metric.name: metric for metric in metrics}, kept as the list: the lookup
\* metrics.get(name) yields the last metric of that name, or None
MetricGet(metrics, name) ==
    LET hits == {i \in 1 .. Len(metrics) : metrics[i].name = name}
    IN  IF hits = {} THEN None
        ELSE metrics[CHOOSE i \in hits : \A j \in hits : j <= i]

metric_value(metrics, name) ==
    LET metric == MetricGet(metrics, name)
    IN  IF metric # None /\ IsNum(metric.value) THEN metric.value ELSE None

\* " | ".join(filter(None, parts)): the non-empty parts, in order
source(metric) ==
    IF metric = None THEN Str("n/a")
    ELSE FStr(SelectSeq(<<metric.source_doc_id, metric.page_or_section, metric.url>>,
                        Truthy))

\* StageZeroBuilder(flip_trigger_horizon_days=...): the builder's one attribute
StageZeroBuilder(flip_trigger_horizon_days) ==
    [flip_trigger_horizon |-> flip_trigger_horizon_days]

\* StageZeroBuilder(): the builder with the default horizon
DefaultBuilder == StageZeroBuilder(FLIP_TRIGGER_HORIZON_DAYS)

\* the day analyze runs on; days are counted from it
Today == 0

\* the trigger due after the default horizon, whatever the builder's is
flip_trigger_default_horizon(self, today, description) ==
    FStr(<<Str(description), Str("due"), Int2Num(today + FLIP_TRIGGER_HORIZON_DAYS)>>)

\* f"{description} - due {(date.today() + timedelta(days=horizon)).isoformat()}",
\* a date being the number of its day
flip_trigger(self, today, description) ==
    FStr(<<Str(description), Str("due"), Int2Num(today + self.flip_trigger_horizon)>>)

GateRow(gate, hard_or_soft, metrics_sources, pass_rule, result, flip) ==
    [gate |-> Str(gate), hard_or_soft |-> Str(hard_or_soft),
     metrics_sources |-> List(metrics_sources), pass_rule |-> Str(pass_rule),
     result |-> Str(result), flip_trigger |-> flip, evidence |-> None]

circle_of_competence(metrics, ttm) ==
    LET revenue == Or(metric_value(metrics, "Revenue"), Get(ttm, "Revenue"))
    IN  GateRow("Circle of Competence", "Hard", <<source(MetricGet(metrics, "Revenue"))>>,
                "Revenue > 0 and segment disclosure present",
                IF Truthy(revenue) /\ NLt(Zero, revenue) THEN "Pass" ELSE "Fail", None)

\* the hard gate with the soft gate's band of +/-15%
fraud_controls_soft_band(metrics) ==
    LET accruals == metric_value(metrics, "Accruals Ratio")
    IN  GateRow("Fraud/Controls", "Hard", <<source(MetricGet(metrics, "Accruals Ratio"))>>,
                "Accruals ratio within +/-10%",
                IF accruals # None /\ NLe(NAbs(accruals), Num(15, 100, 0))
                THEN "Pass" ELSE "Fail", None)

fraud_controls(metrics) ==
    LET accruals == metric_value(metrics, "Accruals Ratio")
    IN  GateRow("Fraud/Controls", "Hard", <<source(MetricGet(metrics, "Accruals Ratio"))>>,
                "Accruals ratio within +/-10%",
                IF accruals # None /\ NLe(Num(-1, 10, 0), accruals)
                                   /\ NLe(accruals, Num(1, 10, 0))
                THEN "Pass" ELSE "Fail", None)

imminent_solvency(metrics, ttm) ==
    LET net_leverage == metric_value(metrics, "Net Debt / EBITDA")
        fcf == Get(ttm, "FCF")
        passes == \/ (net_leverage # None /\ NLe(net_leverage, Int2Num(4)))
                  \/ (fcf # None /\ NLt(Zero, fcf))
    IN  GateRow("Imminent Solvency", "Hard",
                <<source(MetricGet(metrics, "Net Debt / EBITDA"))>>,
                "Net leverage <=4x or TTM FCF > 0",
                IF passes THEN "Pass" ELSE "Fail", None)

valuation_gate(metrics) ==
    LET roic_value == metric_value(metrics, "ROIC")
        wacc_point == metric_value(metrics, "WACC-point")
        passes == roic_value # None /\ wacc_point # None /\ NLe(wacc_point, roic_value)
    IN  GateRow("Valuation", "Hard",
                <<source(MetricGet(metrics, "ROIC")), source(MetricGet(metrics, "WACC-point"))>>,
                "ROIC >= WACC", IF passes THEN "Pass" ELSE "Fail", None)

final_gate(path) ==
    GateRow("Final Decision Gate", "Hard", <<>>,
            "Path = Mature and prior hard gates pass",
            IF path = "Mature" THEN "Pass" ELSE "Fail", None)

\* a soft gate row: a flip trigger is attached to every Soft-Pass
SoftRow(self, today, gate, metrics_sources, pass_rule, passes, description) ==
    GateRow(gate, "Soft", metrics_sources, pass_rule,
            IF passes THEN "Pass" ELSE "Soft-Pass",
            IF passes THEN None ELSE flip_trigger(self, today, description))

accounting_sanity(self, today, metrics) ==
    LET accruals == metric_value(metrics, "Accruals Ratio")
    IN  SoftRow(self, today, "Accounting Sanity", <<source(MetricGet(metrics, "Accruals Ratio"))>>,
                "Accruals ratio within +/-15%",
                accruals # None /\ NLe(NAbs(accruals), Num(15, 100, 0)),
                "Track accrual trend vs peers")

balance_sheet_survival(self, today, metrics, ttm) ==
    LET cash == Get(ttm, "Cash")
        fcf == Get(ttm, "FCF")
    IN  SoftRow(self, today, "Balance-sheet Survival", <<source(MetricGet(metrics, "FCF"))>>,
                "Positive cash and FCF",
                Truthy(cash) /\ NLt(Zero, cash) /\ Truthy(fcf) /\ NLt(Zero, fcf),
                "Refresh liquidity plan; monitor FCF")

unit_economics(self, today, metrics) ==
    LET take_rate == metric_value(metrics, "Take Rate")
    IN  SoftRow(self, today, "Unit Economics", <<source(MetricGet(metrics, "Take Rate"))>>,
                "Take rate >10%",
                Truthy(take_rate) /\ NLt(Num(1, 10, 0), take_rate),
                "Revisit unit economics vs plan")

industry(self, today) ==
    SoftRow(self, today, "Industry", <<>>, "Industry TAM and competition remain favorable",
            FALSE, "Refresh TAM & competitive notes")

moat(self, today, metrics) ==
    SoftRow(self, today, "Moat", <<source(MetricGet(metrics, "Pricing Power"))>>,
            "Evidence of moat remains intact", FALSE, "Review pricing power evidence")

management(self, today) ==
    SoftRow(self, today, "Management", <<>>, "No new governance concerns",
            FALSE, "Check governance disclosures")

\* self.build(metrics, metadata, path) on the given day
StageZeroBuilder_build(self, today, metrics, metadata, path) ==
    LET ttm == IF IsDict(Get(metadata, "ttm")) THEN metadata["ttm"] ELSE EmptyDict
    IN  [hard |-> << circle_of_competence(metrics, ttm), fraud_controls(metrics),
                     imminent_solvency(metrics, ttm), valuation_gate(metrics),
                     final_gate(path) >>,
         soft |-> << accounting_sanity(self, today, metrics),
                     balance_sheet_survival(self, today, metrics, ttm),
                     unit_economics(self, today, metrics), industry(self, today),
                     moat(self, today, metrics), management(self, today) >>]

\* history[-8:] holds a quarter without segments
LacksSegments(hist) == \E i \in 1 .. Len(hist) : DOMAIN hist[i].segments = {}

determine_path(current, hist) ==
    LET ttm == IF IsDict(Get(current.metadata, "ttm")) THEN current.metadata["ttm"]
               ELSE EmptyDict
        fcf == Get(ttm, "FCF")
        ebit == Get(ttm, "EBIT")
        net_debt_value == NSub(GetOr(current.balance_sheet, "TotalDebt", Zero),
                               GetOr(current.balance_sheet, "Cash", Zero))
        ebitda == IF ebit # None THEN ebit ELSE Zero
        leverage_ok == /\ Truthy(ebitda) /\ NLt(Zero, ebitda)
                       /\ \/ NLe(NDiv(net_debt_value, ebitda), Int2Num(1))
                          \/ NLe(net_debt_value, Zero)
        failures ==
            (IF fcf = None \/ NLe(fcf, Zero) THEN <<"TTM FCF <= 0">> ELSE <<>>)
            \o (IF ebit = None \/ NLe(ebit, Zero) THEN <<"TTM EBIT <= 0">> ELSE <<>>)
            \o (IF ~leverage_ok THEN <<"Net leverage >1x or net debt positive">> ELSE <<>>)
            \o (IF Len(hist) < 8 \/ LacksSegments(LastN(hist, 8))
                THEN <<"Segment disclosure < 8 quarters">> ELSE <<>>)
    IN  [path |-> IF failures = <<>> THEN "Mature" ELSE "Emergent",
         reasons |-> failures]

----------------------------------------------------------------------------
(* ingest/store.py, provenance/cache.py, provenance/validator.py.  The      *)
(* documents of a store are a dict doc_id -> [doc_type, quotes, normalized],*)
(* where quotes are the quotes the text contains verbatim and normalized    *)
(* those it contains after lower-casing and collapsing white space.         *)

\* the doc_type values models.Document accepts
DocumentTypes ==
    {"10-K", "20-F", "10-Q", "6-K", "8-K", "Proxy", "IR-Deck", "Transcript",
     "Macro", "Market"}

VALIDATOR_ALLOWED_DOC_TYPES ==
    {"10-K", "20-F", "10-Q", "6-K", "8-K", "Proxy", "IR-Deck", "Transcript",
     "Macro", "Market"}

\* DocumentStore.load: the document, or the exception raised (no such files,
\* or metadata that models.Document rejects)
DocumentStore_load(docs, doc_id) ==
    IF doc_id \notin DOMAIN docs THEN Raised("FileNotFoundError")
    ELSE IF docs[doc_id].doc_type \notin DocumentTypes THEN Raised("ValidationError")
    ELSE docs[doc_id]

\* len(quote.split()) for the quotes of the model
WordCount(quote) == IF quote = "a quote of thirty-one words" THEN 31 ELSE 4

MaxQuoteWords == 30

ProvenanceIssue(metric, reason) == [metric |-> metric, reason |-> reason]

validate_metric(metric, docs) ==
    LET problems ==
            (IF ~Truthy(metric.source_doc_id)
             THEN <<ProvenanceIssue(metric.name, "missing source_doc_id")>> ELSE <<>>)
            \o (IF ~Truthy(metric.page_or_section)
                THEN <<ProvenanceIssue(metric.name, "missing page_or_section")>> ELSE <<>>)
            \o (IF ~Truthy(metric.quote)
                THEN <<ProvenanceIssue(metric.name, "missing quote")>>
                ELSE IF WordCount(metric.quote.s) > MaxQuoteWords
                THEN <<ProvenanceIssue(metric.name, "quote exceeds 30 words")>>
                ELSE <<>>)
            \o (IF ~Truthy(metric.url)
                THEN <<ProvenanceIssue(metric.name, "missing url")>> ELSE <<>>)
    IN  IF metric.source_doc_id = SYSTEM_DOC_ID THEN <<>>
        ELSE IF problems # <<>> THEN problems
        ELSE
        LET document == DocumentStore_load(docs, metric.source_doc_id.s)
        IN  IF IsRaised(document)
            THEN <<ProvenanceIssue(metric.name, "unable to load source document")>>
            ELSE IF document.doc_type \notin VALIDATOR_ALLOWED_DOC_TYPES
            THEN <<ProvenanceIssue(metric.name, "non-primary doc type")>>
            ELSE IF /\ metric.quote.s \notin document.quotes
                    /\ metric.quote.s \notin document.normalized
            THEN <<ProvenanceIssue(metric.name, "quote not found in source document")>>
            ELSE <<>>

RECURSIVE Flatten(_)
Flatten(seqs) == IF seqs = <<>> THEN <<>> ELSE Head(seqs) \o Flatten(Tail(seqs))

\* ProvenanceValidator(store).validate_metrics
validate_metrics(metrics, docs) ==
    IF docs = None THEN <<>>
    ELSE Flatten([i \in 1 .. Len(metrics) |-> validate_metric(metrics[i], docs)])

----------------------------------------------------------------------------
(* agents/analyst.py: AnalystAgent.analyze without an LLM client.  The      *)
(* retriever of the agent searches an empty index, so no evidence is found. *)

\* format(value, spec), kept as a term
Fmt(spec, value) == [k |-> "fmt", spec |-> spec, value |-> value]

\* str(value).upper() for the gate results
Upper(value) ==
    CASE value = Str("Pass") -> "PASS"
      [] value = Str("Fail") -> "FAIL"
      [] value = Str("Soft-Pass") -> "SOFT-PASS"
      [] OTHER -> "WATCH"

metric_payload(metric) ==
    LET payload ==
            [metric |-> Str(metric.name), value |-> metric.value, unit |-> Str(metric.unit),
             period |-> Str(metric.period), source_doc_id |-> metric.source_doc_id,
             page_or_section |-> metric.page_or_section, quote |-> metric.quote,
             url |-> metric.url]
    IN  IF Truthy(metric.metadata) THEN Put(payload, "metadata", metric.metadata)
        ELSE payload

\* numeric(name) of _fallback_payload, default 0.0
numeric(metrics, name) ==
    LET value == metric_value(metrics, name)
    IN  IF value # None THEN value ELSE Zero

ValuationParts(valuation) ==
    IF valuation # None
    THEN <<Fmt(".1%", valuation.wacc.point), Fmt(".1%", valuation.wacc.lower),
           Fmt(".1%", valuation.wacc.upper), Fmt(".1%", valuation.terminal_growth),
           Fmt(".1%", valuation.hurdle)>>
    ELSE <<Str("NA")>>

headline(stage0, path, valuation) ==
    LET hard_rows == stage0.hard
        hard_pass == \A i \in 1 .. Len(hard_rows) : hard_rows[i].result = Str("Pass")
        finals == {i \in 1 .. Len(hard_rows) : hard_rows[i].gate = Str("Final Decision Gate")}
        final_text == IF finals = {} THEN "WATCH"
                      ELSE Upper(hard_rows[CHOOSE i \in finals : \A j \in finals : i <= j].result)
    IN  FStr(<<Str(path), Str("path. Hard gates:"),
               Str(IF hard_pass THEN "PASS" ELSE "FAIL"),
               Str("Final Decision Gate:"), Str(final_text)>> \o ValuationParts(valuation))

stage_one_summary(revenue, fcf, roic_value, leverage, valuation) ==
    FStr(<<Fmt(",.0f", revenue), Fmt(",.0f", fcf), Fmt(".1%", roic_value),
           Fmt(".2f", leverage)>> \o ValuationParts(valuation))

reverse_dcf_payload(valuation, fallback_fcf) ==
    IF valuation = None
    THEN [wacc |-> [point |-> None, band |-> None, cost_of_equity |-> None,
                    cost_of_debt_after_tax |-> None, weights |-> None, inputs |-> None],
          terminal_growth |-> [value |-> None, inputs |-> None],
          hurdle |-> [value |-> None, details |-> None],
          base_irr |-> None,
          scenarios |-> List([i \in 1 .. 3 |->
                [name |-> Str(<<"Bear", "Base", "Bull">>[i]),
                 fcf_path |-> List([j \in 1 .. 5 |-> Zero]), irr |-> None]]),
          sensitivity |-> EmptyDict,
          price |-> None,
          shares |-> None,
          net_debt |-> None,
          ttm_fcf |-> fallback_fcf,
          fcf_paths |-> [name \in {"Bear", "Base", "Bull"} |-> Zero],
          notes |-> Str("Valuation metadata missing; populate to unlock deterministic DCF.")]
    ELSE LET irr == valuation.irr_analysis
         IN [wacc |-> [point |-> valuation.wacc.point,
                       band |-> List(<<valuation.wacc.lower, valuation.wacc.upper>>),
                       cost_of_equity |-> valuation.wacc.cost_of_equity,
                       cost_of_debt_after_tax |-> valuation.wacc.cost_of_debt_after_tax,
                       weights |-> valuation.wacc.weights,
                       inputs |-> valuation.wacc.inputs],
             terminal_growth |-> [value |-> valuation.terminal_growth,
                                  inputs |-> valuation.terminal_inputs],
             hurdle |-> [value |-> valuation.hurdle, details |-> valuation.hurdle_details],
             base_irr |-> irr.irr,
             scenarios |-> List(
                <<[name |-> Str("Base"), fcf_path |-> List(valuation.fcf_paths["Base"]),
                   irr |-> irr.irr]>>
                \o [i \in 1 .. Len(irr.scenarios) |->
                        [name |-> Str(irr.scenarios[i].name),
                         fcf_path |-> List(irr.scenarios[i].fcf_path),
                         irr |-> irr.scenarios[i].irr]]),
             sensitivity |-> irr.sensitivity,
             price |-> valuation.price,
             shares |-> valuation.shares,
             net_debt |-> valuation.net_debt,
             ttm_fcf |-> valuation.ttm_fcf,
             fcf_paths |-> [name \in DOMAIN valuation.fcf_paths |->
                                List(valuation.fcf_paths[name])],
             notes |-> valuation.notes]

final_gate_payload(path, valuation) ==
    LET hurdle_text ==
            IF valuation = None THEN Str("Hurdle policy not derived")
            ELSE FStr(<<Fmt(".1%", valuation.hurdle_details.base),
                        Fmt(".0f", valuation.hurdle_details.adjustment_bps),
                        valuation.hurdle_details.rationale>>)
    IN  [variant |-> [pass_fail |-> Str(IF path = "Mature" THEN "Pass" ELSE "Watch")],
         price_power |-> [pass_fail |-> Str("TBD")],
         owner_eps_path |-> [pass_fail |-> Str("TBD")],
         why_now |-> [pass_fail |-> Str("TBD")],
         kill_switch |-> [pass_fail |-> Str("TBD"), definition |-> hurdle_text]]

\* AnalystAgent(document_store=docs).analyze(ticker, today, q, documents, hist):
\* the merged dossier, or the exception raised
analyze(q, hist, docs) ==
    Bind(calculate(q, hist), LAMBDA calc_result :
        IF IsRaised(calc_result) THEN calc_result
        ELSE
        Bind2(determine_path(calc_result.quarter, calc_result.history),
              validate_metrics(calc_result.metrics, docs),
              LAMBDA path_decision, issues :
        Bind3(StageZeroBuilder_build(DefaultBuilder, Today,
                  calc_result.metrics,
                  calc_result.quarter.metadata, path_decision.path),
              <<>>,
              [i \in 1 .. Len(calc_result.metrics) |->
                  metric_payload(calc_result.metrics[i])],
              LAMBDA stage0_rows, evidence, metrics_payload :
            [output_0 |-> headline(stage0_rows, path_decision.path, calc_result.valuation),
             stage_0 |-> [hard |-> List(stage0_rows.hard), soft |-> List(stage0_rows.soft)],
             stage_1 |-> stage_one_summary(numeric(calc_result.metrics, "Revenue"),
                            numeric(calc_result.metrics, "FCF"),
                            numeric(calc_result.metrics, "ROIC"),
                            numeric(calc_result.metrics, "Net Debt / EBITDA"),
                            calc_result.valuation),
             provenance |-> List(evidence),
             metrics |-> List(metrics_payload),
             reverse_dcf |-> reverse_dcf_payload(calc_result.valuation,
                                                 numeric(calc_result.metrics, "FCF")),
             final_gate |-> final_gate_payload(path_decision.path, calc_result.valuation),
             path_reasons |-> List([i \in 1 .. Len(path_decision.reasons) |->
                                        Str(path_decision.reasons[i])]),
             provenance_issues |-> List([i \in 1 .. Len(issues) |->
                                        FStr(<<Str(issues[i].metric), Str(issues[i].reason)>>)]),
             evidence |-> List(evidence)])))

----------------------------------------------------------------------------
(* agents/verifier.py: VerifierAgent.  A reason is the pair of its fixed    *)
(* text and the metric, gate or issue it names.  The reasons for the hard   *)
(* gates follow the iteration order of the set _HARD_GATES, which a run of  *)
(* the interpreter fixes arbitrarily: verify takes that order as gate_order.*)

HARD_GATES ==
    {"Circle of Competence", "Fraud/Controls", "Imminent Solvency", "Valuation",
     "Final Decision Gate"}

PROHIBITED == {"NRR", "GRR", "Net Revenue Retention"}

NON_SUBSCRIPTION_MODELS == {"marketplace", "commerce", "non_subscription"}

sample_size == 5

Reason(text, subject) == [text |-> text, subject |-> subject]

QAResult(status, reasons) == [status |-> status, reasons |-> reasons]

RECURSIVE SetToSeq(_)
SetToSeq(S) ==
    IF S = {} THEN <<>>
    ELSE LET x == CHOOSE y \in S : TRUE IN <<x>> \o SetToSeq(S \ {x})

\* hashable(v): a list or a dict cannot be a dict key or a set member
Unhashable(v) == IsDict(v) \/ IsList(v)

\* list(v): the list of the items of v, or the TypeError raised.  A dict
\* yields its keys and a str its characters (the strings of the model that
\* are iterated have at most one character)
Iterate(v) ==
    IF IsDict(v)
    THEN List([i \in 1 .. Cardinality(DOMAIN v) |-> Str(SetToSeq(DOMAIN v)[i])])
    ELSE CASE v.k = "list" -> v
           [] v.k = "str" /\ "s" \in DOMAIN v /\ v.s = "" -> List(<<>>)
           [] v.k = "str" /\ "s" \in DOMAIN v /\ v.s = "x" -> List(<<v>>)
           [] v.k \in {"none", "num"} -> Raised("TypeError")

\* entry.get("metric") or entry.get("name")
EntryName(entry) == Or(Get(entry, "metric"), Get(entry, "name"))

\* _load_dossier_metrics: the entries that carry a name, in order (a later
\* entry of the same name replaces an earlier one), or the exception raised
load_dossier_metrics(d) ==
    LET entries == Or(Get(d, "metrics"), GetOr(d, "provenance", List(<<>>)))
        items == Iterate(entries)
    IN  IF IsRaised(items) THEN items
        ELSE IF \E i \in 1 .. Len(items.v) : ~IsDict(items.v[i])
        THEN Raised("AttributeError")
        ELSE IF \E i \in 1 .. Len(items.v) :
                    Truthy(EntryName(items.v[i])) /\ Unhashable(EntryName(items.v[i]))
        THEN Raised("TypeError")
        ELSE List(SelectSeq(items.v, LAMBDA entry : Truthy(EntryName(entry))))

\* dossier_metrics.get(name)
DossierGet(dossier_metrics, name) ==
    LET hits == {i \in 1 .. Len(dossier_metrics) :
                    EntryName(dossier_metrics[i]) = Str(name)}
    IN  IF hits = {} THEN None
        ELSE dossier_metrics[CHOOSE i \in hits : \A j \in hits : j <= i]

Tolerance == Num(1, 100, 0)

\* the reasons _recompute_metrics appends for one sampled metric
recompute_metric(metric, dossier_metrics) ==
    LET entry == DossierGet(dossier_metrics, metric.name)
        value == Get(entry, "value")
        expected == metric.value
        diff == NAbs(NSub(expected, value))
        ratio == IF expected = Zero THEN diff ELSE NDiv(diff, NAbs(expected))
    IN  IF ~Truthy(entry) THEN <<Reason("Metric missing from dossier", Str(metric.name))>>
        ELSE IF ~IsNum(value)
        THEN <<Reason("Metric value not numeric in dossier", Str(metric.name))>>
        ELSE IF NLt(Tolerance, ratio) THEN <<Reason("Metric mismatch", Str(metric.name))>>
        ELSE <<>>

\* numeric_metrics[: sample_size]; the metric names of a calculation are
\* distinct, so metric_map.values() is the list of metrics
Sample(metrics) ==
    LET numeric_metrics == SelectSeq(metrics, LAMBDA m : IsNum(m.value))
    IN  SubSeq(numeric_metrics, 1,
               IF Len(numeric_metrics) < sample_size THEN Len(numeric_metrics)
               ELSE sample_size)

recompute_metrics(metrics, dossier_metrics) ==
    LET sample == Sample(metrics)
    IN  List(Flatten([i \in 1 .. Len(sample) |->
                        recompute_metric(sample[i], dossier_metrics)]))

\* seen.get(gate) for seen = {row.get("gate"): row.get("result") for row in rows}
SeenGet(rows, gate) ==
    LET hits == {i \in 1 .. Len(rows) : Get(rows[i], "gate") = Str(gate)}
    IN  IF hits = {} THEN None
        ELSE Get(rows[CHOOSE i \in hits : \A j \in hits : j <= i], "result")

check_hard_gates(stage0, gate_order) ==
    LET rows == IF IsDict(stage0) THEN GetOr(stage0, "hard", List(<<>>)) ELSE stage0
        items == Iterate(rows)
    IN  IF IsRaised(items) THEN items
        ELSE
        LET dict_rows == SelectSeq(items.v, IsDict)
        IN  IF \E i \in 1 .. Len(dict_rows) : Unhashable(Get(dict_rows[i], "gate"))
            THEN Raised("TypeError")
            ELSE IF \E gate \in HARD_GATES : Unhashable(SeenGet(dict_rows, gate))
            THEN Raised("TypeError")
            ELSE List(Flatten([i \in 1 .. Len(gate_order) |->
                    LET result == SeenGet(dict_rows, gate_order[i])
                    IN  IF result = None
                        THEN <<Reason("Missing hard gate", Str(gate_order[i]))>>
                        ELSE IF result \notin {Str("Pass"), Str("PASS")}
                        THEN <<Reason("Hard gate failed", Str(gate_order[i]))>>
                        ELSE <<>>]))

\* "Mature" in s, for the strings of the model
MentionsMature(s) == s \in {"Mature", "Mature path. Hard gates: PASS."}

\* "Mature" in output raises TypeError: output is not a container
NotContainer(output) == ~IsDict(output) /\ output.k \notin {"list", "str"}

\* "Mature" in output
InOutput(output) ==
    IF IsDict(output) THEN "Mature" \in DOMAIN output
    ELSE CASE output.k = "list" ->
                \E i \in 1 .. Len(output.v) : output.v[i] = Str("Mature")
           [] output.k = "str" /\ "s" \in DOMAIN output -> MentionsMature(output.s)
           [] output.k = "str" /\ "parts" \in DOMAIN output ->
                \E i \in 1 .. Len(output.parts) :
                    /\ IsStr(output.parts[i]) /\ "s" \in DOMAIN output.parts[i]
                    /\ MentionsMature(output.parts[i].s)

check_path(d) ==
    LET path_reasons == GetOr(d, "path_reasons", List(<<>>))
        output == GetOr(d, "output_0", Str(""))
    IN  IF NotContainer(output) THEN Raised("TypeError")
        ELSE IF InOutput(output) /\ Truthy(path_reasons)
        THEN List(<<Reason("Path marked Mature but reasons list not empty", Str(""))>>)
        ELSE List(<<>>)

SharesTolerance == Num(1, 100, 0)

NetDebtTolerance == Num(5, 100, 0)

check_valuation_consistency(q, d) ==
    LET reverse == GetOr(d, "reverse_dcf", EmptyDict)
        valuation_meta == IF IsDict(Get(q.metadata, "valuation"))
                          THEN q.metadata["valuation"] ELSE EmptyDict
        expected_shares == Get(valuation_meta, "shares_diluted")
        reported_shares == Get(reverse, "shares")
        expected_net_debt == Get(valuation_meta, "net_debt")
        quarter_net_debt == NSub(Or(Get(q.balance_sheet, "TotalDebt"), Zero),
                                 Or(Get(q.balance_sheet, "Cash"), Zero))
        reported_net_debt == Get(reverse, "net_debt")
        baseline == IF IsNum(expected_net_debt) THEN expected_net_debt ELSE quarter_net_debt
    IN  IF ~IsDict(reverse) THEN List(<<>>)
        ELSE List(
        (IF /\ IsNum(expected_shares) /\ IsNum(reported_shares) /\ NLt(Zero, expected_shares)
            /\ NLt(SharesTolerance,
                   NDiv(NAbs(NSub(expected_shares, reported_shares)), expected_shares))
         THEN <<Reason("Shares in reverse DCF do not match valuation metadata", Str(""))>>
         ELSE <<>>)
        \o
        (IF /\ IsNum(reported_net_debt) /\ baseline # Zero
            /\ NLt(NetDebtTolerance,
                   NDiv(NAbs(NSub(baseline, reported_net_debt)), NAbs(baseline)))
         THEN <<Reason("Net debt in reverse DCF inconsistent with filings", Str(""))>>
         ELSE <<>>))

check_business_model_metrics(q, metrics, dossier_metrics, prohibited_order) ==
    LET business_model == Get(q.metadata, "business_model")
    IN  IF Unhashable(business_model) THEN Raised("TypeError")
        ELSE IF ~(/\ IsStr(business_model) /\ "s" \in DOMAIN business_model
                  /\ business_model.s \in NON_SUBSCRIPTION_MODELS)
        THEN List(<<>>)
        ELSE List(Flatten([i \in 1 .. Len(prohibited_order) |->
                LET metric == MetricGet(metrics, prohibited_order[i])
                    dossier_entry == DossierGet(dossier_metrics, prohibited_order[i])
                    value_numeric ==
                        IF metric # None /\ IsNum(metric.value) THEN metric.value
                        ELSE IF dossier_entry # None /\ IsNum(Get(dossier_entry, "value"))
                        THEN dossier_entry["value"]
                        ELSE None
                IN  IF value_numeric # None
                    THEN <<Reason("Subscription metric not permitted", Str(prohibited_order[i]))>>
                    ELSE <<>>]))

\* the reasons of the provenance validation that verify keeps
provenance_reasons(metrics, docs) ==
    LET issues == validate_metrics(metrics, docs)
        kept == SelectSeq(issues, LAMBDA issue :
                    /\ ~(\E i \in 1 .. Len(metrics) :
                            /\ metrics[i].name = issue.metric
                            /\ \A j \in 1 .. i - 1 : metrics[j].name # issue.metric
                            /\ metrics[i].source_doc_id = SYSTEM_DOC_ID)
                    /\ issue.reason # "unable to load source document")
    IN  List([i \in 1 .. Len(kept) |-> Reason(kept[i].reason, Str(kept[i].metric))])

\* the reasons for the provenance issues the dossier declares, or the
\* TypeError raised
declared_issue_reasons(d) ==
    IF ~Truthy(Get(d, "provenance_issues")) THEN List(<<>>)
    ELSE LET items == Iterate(d["provenance_issues"])
         IN  IF IsRaised(items) THEN items
             ELSE List([i \in 1 .. Len(items.v) |-> Reason("Provenance issue", items.v[i])])

\* the checks of verify in the order of the code, each a list of reasons or
\* the exception raised; recompute and the business model rule read the
\* dossier metrics, so they raise what loading them raised
Checks(q, d, calc_result, docs, gate_order, prohibited_order) ==
    Bind(load_dossier_metrics(d), LAMBDA dossier_metrics :
        << provenance_reasons(calc_result.metrics, docs),
           declared_issue_reasons(d),
           IF IsRaised(dossier_metrics) THEN dossier_metrics
           ELSE recompute_metrics(calc_result.metrics, dossier_metrics.v),
           check_hard_gates(GetOr(d, "stage_0", EmptyDict), gate_order),
           check_path(d),
           check_valuation_consistency(q, d),
           IF IsRaised(dossier_metrics) THEN dossier_metrics
           ELSE check_business_model_metrics(q, calc_result.metrics, dossier_metrics.v,
                                             prohibited_order) >>)

\* the variant that drops the reasons of the path check
verify_without_path(q, d, hist, docs, gate_order, prohibited_order) ==
    Bind(calculate(q, hist), LAMBDA calc_result :
        IF IsRaised(calc_result) THEN calc_result
        ELSE
        Bind(Checks(q, d, calc_result, docs, gate_order, prohibited_order),
             LAMBDA checks :
        Bind({i \in 1 .. Len(checks) : IsRaised(checks[i])}, LAMBDA raising :
            IF raising # {} THEN checks[CHOOSE i \in raising : \A j \in raising : i <= j]
            ELSE Bind(Flatten([i \in 1 .. Len(checks) |-> IF i = 5 THEN <<>> ELSE checks[i].v]),
                      LAMBDA reasons :
                     IF reasons # <<>> THEN QAResult("BLOCKER", reasons)
                     ELSE QAResult("PASS", <<>>)))))

\* VerifierAgent(document_store=docs).verify(q, d, hist): the QAResult, or
\* the exception that escapes
verify(q, d, hist, docs, gate_order, prohibited_order) ==
    Bind(calculate(q, hist), LAMBDA calc_result :
        IF IsRaised(calc_result) THEN calc_result
        ELSE
        Bind(Checks(q, d, calc_result, docs, gate_order, prohibited_order),
             LAMBDA checks :
        Bind({i \in 1 .. Len(checks) : IsRaised(checks[i])}, LAMBDA raising :
            IF raising # {} THEN checks[CHOOSE i \in raising : \A j \in raising : i <= j]
            ELSE Bind(Flatten([i \in 1 .. Len(checks) |-> checks[i].v]),
                      LAMBDA reasons :
                     IF reasons # <<>> THEN QAResult("BLOCKER", reasons)
                     ELSE QAResult("PASS", <<>>)))))

----------------------------------------------------------------------------
(* Inputs of the model *)

MaxAmount == 2

MaxApplications == 3

Absent == [k |-> "absent"]

\* the dicts {key: v} for v in values, and {} when Absent is among the values
Field(key, values) ==
    {IF v = Absent THEN EmptyDict ELSE (key :> v) : v \in values}

Amounts == {Int2Num(i) : i \in -1 .. MaxAmount}

----------------------------------------------------------------------------
(* Repeated normalization of one raw period: Normalizer.normalize_quarter   *)
(* applied to its own result.  out is the list of successive results.       *)

NormUnitScales ==
    {Absent, Int2Num(1), Int2Num(1000), Num(5, 2, 0), Zero, Int2Num(-1000), Str("1000")}

NormUnitTexts ==
    {Absent, Str("USD in thousands"), Str("In Millions"), Str("BILLIONS"),
     Str("thousands of millions"), Str("shares")}

NormMetadata ==
    {us @@ ut : us \in Field("unit_scale", NormUnitScales),
                ut \in Field("unit_text", NormUnitTexts)}

NormQuarters ==
    {CompanyQuarter("ACME", "2024Q4", inc, ("Cash" :> Int2Num(2)), ("FCF" :> Int2Num(1)),
                    seg, md) :
        inc \in Field("Revenue", Amounts \cup {Absent}),
        seg \in {EmptyDict, ("Cloud" :> ("Revenue" :> Int2Num(MaxAmount)))},
        md \in NormMetadata}

NormHistories ==
    {<<>>,
     <<CompanyQuarter("ACME", "2024-Q3", ("Revenue" :> Int2Num(1)), EmptyDict,
                      ("Fcf" :> Int2Num(2)), EmptyDict,
                      ("unit_text" :> Str("USD in thousands")))>>}

InitNorm ==
    /\ pc = "norm"
    /\ quarter \in NormQuarters
    /\ history \in NormHistories
    /\ dossier = None
    /\ store = None
    /\ args = None
    /\ out = <<>>

Normalize ==
    /\ pc = "norm"
    /\ Len(out) < MaxApplications
    /\ out' = Append(out, normalize_quarter(IF out = <<>> THEN quarter ELSE out[Len(out)],
                                            history))
    /\ UNCHANGED <<pc, quarter, history, dossier, store, args>>

NextNorm == Normalize

SpecNorm == InitNorm /\ [][NextNorm]_vars

Statements(q) == <<q.income_stmt, q.balance_sheet, q.cash_flow, q.segments>>

\* C9: normalizing an already normalized period leaves every income-statement,
\* balance-sheet, cash-flow and segment value as the first normalization left it:
\* the unit scale is applied exactly once, whether it came from metadata.unit_scale
\* or from a unit_text hint.
C9_NormalizeIdempotent ==
    pc = "norm" =>
        /\ Len(out) >= 1 =>
              Statements(out[1]) =
                  <<apply_scale_dict(quarter.income_stmt, resolve_unit_scale(quarter)),
                    apply_scale_dict(quarter.balance_sheet, resolve_unit_scale(quarter)),
                    apply_scale_dict(quarter.cash_flow, resolve_unit_scale(quarter)),
                    [name \in DOMAIN quarter.segments |->
                        apply_scale_dict(quarter.segments[name], resolve_unit_scale(quarter))]>>
        /\ \A i \in 2 .. Len(out) : Statements(out[i]) = Statements(out[1])

\* a period normalized twice whose scale came from a unit_text hint and whose
\* statements and segments hold non-zero values
C9_Witness ==
    /\ pc = "norm"
    /\ Len(out) >= 2
    /\ ~IsNum(Get(quarter.metadata, "unit_scale"))
    /\ resolve_unit_scale(quarter) = Num(1, 1, 6)
    /\ Get(quarter.income_stmt, "Revenue") = Int2Num(2)
    /\ quarter.segments # EmptyDict
    /\ out[2].income_stmt["Revenue"] = Num(2, 1, 6)

\* C10: after any number of successive normalizations metadata.unit_scale is 1.0
\* and metadata.original_unit_scale is the scale resolved from the raw period.
C10_OriginalScaleKept ==
    pc = "norm" =>
        \A i \in 1 .. Len(out) :
            /\ out[i].metadata["unit_scale"] = Int2Num(1)
            /\ out[i].metadata["original_unit_scale"] = resolve_unit_scale(quarter)

----------------------------------------------------------------------------
(* One call of calculators.utils.safe_div *)

Tiny == Num(5, 1, -13)

DivValues ==
    {None, Zero, Tiny, NNeg(Tiny), DivEpsilon, NNeg(DivEpsilon), Num(1, 3, 0)}
        \cup {Int2Num(i) : i \in 1 .. MaxAmount} \cup {Int2Num(-i) : i \in 1 .. MaxAmount}

InitDiv ==
    /\ pc = "safe_div"
    /\ args \in [numerator : DivValues, denominator : DivValues]
    /\ quarter = None
    /\ history = <<>>
    /\ dossier = None
    /\ store = None
    /\ out = None

CallSafeDiv ==
    /\ pc = "safe_div"
    /\ out' = safe_div(args.numerator, args.denominator)
    /\ pc' = "safe_div returned"
    /\ UNCHANGED <<quarter, history, dossier, store, args>>

NextDiv == CallSafeDiv

SpecDiv == InitDiv /\ [][NextDiv]_vars

\* |d| < 1e-12
NearZero(d) == NLt(NAbs(d), Num(1, 1, -12))

\* C7 as stated: safe_div(n, d) is "no value" iff d is absent or |d| < 1e-12.
C7_NoValueIffBadDenominator ==
    pc = "safe_div returned" =>
        (out = None <=> (args.denominator = None \/ NearZero(args.denominator)))

\* C7 as amended: safe_div(n, d) is "no value" iff n is absent, d is absent or
\* |d| < 1e-12; in every other case it is the number q with q * d = n.
C7_SafeDiv ==
    pc = "safe_div returned" =>
        /\ out = None <=>
              \/ args.numerator = None
              \/ args.denominator = None
              \/ NearZero(args.denominator)
        /\ out # None => IsNum(out) /\ NMul(out, args.denominator) = args.numerator

\* a quotient by a denominator just at the threshold, and a refusal just below it
C7_Witness ==
    /\ pc = "safe_div returned"
    /\ args.numerator = Int2Num(1)
    /\ args.denominator = NNeg(DivEpsilon)
    /\ out = Num(-1, 1, 12)

----------------------------------------------------------------------------
(* One run of MetricBuilder.build on a normalized period.  The period is the *)
(* base period with at most MaxMissing statement fields absent, zero or      *)
(* nearly zero, or the base period under one provenance configuration.       *)

MaxMissing == 2

IncomeFields == {"Revenue", "COGS", "CostOfGoodsSold", "EBIT", "EBITDA", "NetIncome"}

BalanceFields ==
    {"AccountsReceivable", "Inventory", "AccountsPayable", "TotalAssets",
     "TotalDebt", "Cash", "TotalEquity"}

CashFlowFields == {"CFO", "CapEx", "FCF"}

StatementFields == IncomeFields \cup BalanceFields \cup CashFlowFields

BaseValue(f) ==
    CASE f = "Revenue" -> Int2Num(100)
      [] f = "COGS" -> Int2Num(40)
      [] f = "CostOfGoodsSold" -> Int2Num(50)
      [] f = "EBIT" -> Int2Num(20)
      [] f = "EBITDA" -> Int2Num(30)
      [] f = "NetIncome" -> Int2Num(10)
      [] f = "AccountsReceivable" -> Int2Num(25)
      [] f = "Inventory" -> Int2Num(8)
      [] f = "AccountsPayable" -> Int2Num(6)
      [] f = "TotalAssets" -> Int2Num(200)
      [] f = "TotalDebt" -> Int2Num(5)
      [] f = "Cash" -> Int2Num(15)
      [] f = "TotalEquity" -> Int2Num(10)
      [] f = "CFO" -> Int2Num(12)
      [] f = "CapEx" -> Int2Num(-4)
      [] f = "FCF" -> Int2Num(7)

\* the fields that enter the metrics by multiplication or division only
TinyFields == {"Revenue", "COGS", "CostOfGoodsSold", "EBIT", "EBITDA", "TotalAssets"}

Changes(f) == IF f \in TinyFields THEN {Absent, Zero, Tiny} ELSE {Absent, Zero}

\* the assignments of a changed value to at most n statement fields
RECURSIVE Perturbations(_)
Perturbations(n) ==
    IF n = 0 THEN {EmptyDict}
    ELSE LET prev == Perturbations(n - 1)
         IN  prev \cup UNION {{Put(p, f, v) : v \in Changes(f)} :
                                p \in prev, f \in StatementFields}

Statement(fields, p) ==
    [f \in {g \in fields : GetOr(p, g, BaseValue(g)) # Absent} |-> GetOr(p, f, BaseValue(f))]

PerturbedQuarter(p, metadata) ==
    CompanyQuarter("ACME", "2024Q4", Statement(IncomeFields, p), Statement(BalanceFields, p),
                   Statement(CashFlowFields, p), ("Cloud" :> ("Revenue" :> Int2Num(60))),
                   metadata)

\* a provenance entry: each field absent, filled or (but for url) empty
ProvenanceEntries ==
    {d @@ ps @@ qu @@ u :
        d \in Field("source_doc_id", {Absent, Str("DOC-1"), Str("")}),
        ps \in Field("page_or_section", {Absent, Str("p. 12"), Str("")}),
        qu \in Field("quote", {Absent, Str("Revenue was 100"), Str("")}),
        u \in Field("url", {Absent, Str("https://example.com/10k")})}

FullEntry ==
    [source_doc_id |-> Str("DOC-2"), page_or_section |-> Str("Item 7"),
     quote |-> Str("Net debt was 5"), url |-> Str("https://example.com/config")]

\* metadata.provenance: absent, or entries for Revenue and NRR (a dict, or a str)
MainProvenance ==
    {EmptyDict}
        \cup {("provenance" :> ("Revenue" :> e) @@ ("NRR" :> e)) : e \in ProvenanceEntries}
        \cup {("provenance" :> ("Revenue" :> Str("see 10-K")))}

\* metadata.valuation: absent, without provenance, or with entries for Revenue and ROIC
ValuationProvenance ==
    {EmptyDict,
     ("valuation" :> ("notes" :> Str("n/a"))),
     ("valuation" :> ("provenance" :> ("Revenue" :> FullEntry) @@ ("ROIC" :> FullEntry))),
     ("valuation" :> ("provenance" :>
          ("Revenue" :> FullEntry) @@ ("ROIC" :> [FullEntry EXCEPT !.quote = Str("")])))}

ProvenanceConfigs == {m @@ v : m \in MainProvenance, v \in ValuationProvenance}

MetricQuarters ==
    {PerturbedQuarter(p, EmptyDict) : p \in Perturbations(MaxMissing)}
        \cup {PerturbedQuarter(EmptyDict, md) : md \in ProvenanceConfigs}

InitMetric ==
    /\ pc = "build"
    /\ quarter \in MetricQuarters
    /\ history = <<>>
    /\ dossier = None
    /\ store = None
    /\ args = None
    /\ out = <<>>

BuildMetrics ==
    /\ pc = "build"
    /\ out' = MetricBuilder_build(normalize_quarter(quarter, history))
    /\ pc' = "built"
    /\ UNCHANGED <<quarter, history, dossier, store, args>>

NextMetric == BuildMetrics

SpecMetric == InitMetric /\ [][NextMetric]_vars

MetricNamed(metrics, name) ==
    metrics[CHOOSE i \in 1 .. Len(metrics) : metrics[i].name = name]

ValueOf(name) == MetricNamed(out, name).value

\* the statement field f is absent from the period
Lacks(f) ==
    f \notin (DOMAIN quarter.income_stmt \cup DOMAIN quarter.balance_sheet
                \cup DOMAIN quarter.cash_flow)

FieldValue(f) ==
    IF f \in DOMAIN quarter.income_stmt THEN quarter.income_stmt[f]
    ELSE IF f \in DOMAIN quarter.balance_sheet THEN quarter.balance_sheet[f]
    ELSE quarter.cash_flow[f]

\* the denominator field f is absent or |f| < 1e-12
Unusable(f) == Lacks(f) \/ NearZero(FieldValue(f))

CogsField == IF Lacks("CostOfGoodsSold") THEN "COGS" ELSE "CostOfGoodsSold"

EbitdaField == IF Lacks("EBITDA") THEN "EBIT" ELSE "EBITDA"

\* C6: MetricBuilder.build returns ten Metrics whose values are numbers or ABSTAIN;
\* each ratio metric is ABSTAIN exactly when a required input is absent or its
\* denominator d has |d| < 1e-12, and NRR is always ABSTAIN.
C6_AbstainExactly ==
    pc = "built" =>
        /\ Len(out) = 10
        /\ \A i \in 1 .. Len(out) : IsNum(out[i].value) \/ out[i].value = ABSTAIN
        /\ ValueOf("DSO") = ABSTAIN <=> (Lacks("AccountsReceivable") \/ Unusable("Revenue"))
        /\ ValueOf("DIH") = ABSTAIN <=> (Lacks("Inventory") \/ Unusable(CogsField))
        /\ ValueOf("DPO") = ABSTAIN <=> (Lacks("AccountsPayable") \/ Unusable(CogsField))
        /\ ValueOf("CCC") = ABSTAIN <=>
              \/ Lacks("AccountsReceivable") \/ Unusable("Revenue")
              \/ Lacks("Inventory") \/ Lacks("AccountsPayable") \/ Unusable(CogsField)
        /\ ValueOf("Accruals Ratio") = ABSTAIN <=>
              (Lacks("NetIncome") \/ Lacks("CFO") \/ Unusable("TotalAssets"))
        /\ ValueOf("Net Debt / EBITDA") = ABSTAIN <=>
              (Lacks("TotalDebt") \/ Lacks("Cash") \/ Unusable(EbitdaField))
        /\ ValueOf("ROIC") = ABSTAIN <=>
              \/ Lacks("EBIT") \/ Lacks("TotalEquity") \/ Lacks("TotalDebt") \/ Lacks("Cash")
              \/ NearZero(NSub(NAdd(FieldValue("TotalEquity"), FieldValue("TotalDebt")),
                               FieldValue("Cash")))
        /\ ValueOf("NRR") = ABSTAIN

\* a period without TotalDebt and with a nearly zero Revenue: the leverage and the
\* ratios over Revenue abstain while the other metrics are computed
C6_Witness ==
    /\ pc = "built"
    /\ Lacks("TotalDebt")
    /\ ~Lacks("Revenue") /\ FieldValue("Revenue") = Tiny
    /\ ValueOf("Net Debt / EBITDA") = ABSTAIN
    /\ ValueOf("DSO") = ABSTAIN
    /\ ValueOf("Revenue") = Tiny
    /\ ValueOf("DIH") = Num(584, 10, 0)
    /\ ValueOf("Accruals Ratio") = Num(-1, 100, 0)

\* C8: every Metric that metric_from_value returns has its four provenance fields
\* filled with a non-null, non-empty value, under every provenance configuration.
C8_ProvenancePopulated ==
    pc = "built" =>
        \A i \in 1 .. Len(out) :
            \A f \in ProvenanceFields : out[i][f] # None /\ out[i][f] # Str("")

----------------------------------------------------------------------------
(* The analyst and the verifier on one raw period.  The period, its history,*)
(* the document store and the dossier are drawn from bounded sets; Analyze  *)
(* replaces the dossier by the one AnalystAgent.analyze builds, Verify runs *)
(* VerifierAgent.verify on the dossier at hand.                             *)

MaxHistory == 8

\* the statement fields changed against the base period
VerifyPeriods ==
    {("TotalEquity" :> Int2Num(60)),
     ("TotalEquity" :> Int2Num(60)) @@ ("Revenue" :> Absent),
     ("TotalEquity" :> Int2Num(60)) @@ ("Revenue" :> Zero),
     EmptyDict,
     ("TotalEquity" :> Int2Num(60)) @@
        [f \in {"AccountsReceivable", "Inventory", "AccountsPayable", "FCF", "CapEx"} |->
            Absent]}

CompleteValuation ==
    [risk_free_rate |-> Num(4, 100, 0), equity_risk_premium |-> Num(5, 100, 0),
     beta |-> Int2Num(1), cost_of_debt |-> Num(6, 100, 0), tax_rate |-> Num(25, 100, 0),
     market_equity_value |-> Int2Num(800), market_debt_value |-> Int2Num(200),
     share_price |-> Int2Num(50), shares_diluted |-> Int2Num(10),
     fcf_paths |-> [Base |-> <<Int2Num(7), Int2Num(8)>>, Bull |-> <<Int2Num(9), Int2Num(10)>>]]

\* metadata.valuation: absent, complete (without net_debt, with a numeric or a
\* str net_debt), lacking a required input, or with a null equity adjustment
ValuationConfigs ==
    {EmptyDict,
     ("valuation" :> CompleteValuation),
     ("valuation" :> Put(CompleteValuation, "net_debt", Int2Num(40))),
     ("valuation" :> Put(CompleteValuation, "net_debt", Str("5"))),
     ("valuation" :> [key \in DOMAIN CompleteValuation \ {"beta"} |-> CompleteValuation[key]]),
     ("valuation" :> Put(CompleteValuation, "equity_adjustment_bps", None))}

\* the healthy period under every unit scale, valuation and business model
VerifyMetadata ==
    {us @@ v @@ bm :
        us \in Field("unit_scale", {Absent, Int2Num(1000)}),
        v \in ValuationConfigs,
        bm \in Field("business_model", {Absent, Str("marketplace")})}

PriorQuarter ==
    CompanyQuarter("ACME", "2024-Q3",
                   ("Revenue" :> Int2Num(90)) @@ ("EBIT" :> Int2Num(10)),
                   ("Cash" :> Int2Num(12)), ("FCF" :> Int2Num(5)),
                   ("Cloud" :> ("Revenue" :> Int2Num(50))), EmptyDict)

Histories == {<<>>, [i \in 1 .. MaxHistory |-> PriorQuarter]}

CitedRevenue ==
    ("provenance" :> ("Revenue" :>
        [source_doc_id |-> Str("DOC-1"), page_or_section |-> Str("p. 12"),
         quote |-> Str("Revenue was 100"), url |-> Str("https://example.com/10k")]))

\* the document stores: none, empty, and DOC-1 with or without the quote
Stores ==
    {None, EmptyDict,
     ("DOC-1" :> [doc_type |-> "10-K", quotes |-> {"Revenue was 100"}, normalized |-> {}]),
     ("DOC-1" :> [doc_type |-> "10-K", quotes |-> {}, normalized |-> {"Revenue was 100"}]),
     ("DOC-1" :> [doc_type |-> "Market", quotes |-> {}, normalized |-> {}]),
     ("DOC-1" :> [doc_type |-> "Blog", quotes |-> {"Revenue was 100"}, normalized |-> {}])}

HealthyPeriod == ("TotalEquity" :> Int2Num(60))

FullHistory == [i \in 1 .. MaxHistory |-> PriorQuarter]

\* a period with four numeric base metrics, so that the sample reaches WACC-point
SparsePeriod ==
    ("TotalEquity" :> Int2Num(60)) @@
        [f \in {"AccountsReceivable", "Inventory", "AccountsPayable", "FCF", "CapEx"} |->
            Absent]

\* the periods, histories and stores under verification: every period with
\* complete valuation metadata and its full history; the healthy and the
\* sparse period without valuation metadata or without history; the healthy
\* period under every metadata; and the healthy period citing DOC-1 under
\* every store
Cases ==
    {[quarter |-> PerturbedQuarter(p, ("valuation" :> CompleteValuation)),
      history |-> FullHistory, store |-> None] : p \in VerifyPeriods}
    \cup
    {[quarter |-> PerturbedQuarter(HealthyPeriod, md), history |-> h, store |-> None] :
        md \in {EmptyDict, ("valuation" :> CompleteValuation)}, h \in Histories}
    \cup
    {[quarter |-> PerturbedQuarter(SparsePeriod, EmptyDict),
      history |-> FullHistory, store |-> None]}
    \cup
    {[quarter |-> PerturbedQuarter(HealthyPeriod, md),
      history |-> FullHistory, store |-> None] : md \in VerifyMetadata}
    \cup
    {[quarter |-> PerturbedQuarter(HealthyPeriod,
                                   CitedRevenue @@ ("valuation" :> CompleteValuation)),
      history |-> h, store |-> s] : h \in Histories, s \in Stores}

DelKey(dict, key) == [other \in DOMAIN dict \ {key} |-> dict[other]]

Remove(seq, i) == SubSeq(seq, 1, i - 1) \o SubSeq(seq, i + 1, Len(seq))

\* the values a dossier declares in place of the value v of a metric: at and
\* beyond the tolerance, a str, and a number for an abstained metric
DeclaredValues(v) ==
    IF ~IsNum(v) THEN {Int2Num(1)}
    ELSE {Str("n/a")} \cup
         (IF v = Zero THEN {Num(1, 100, 0), Num(2, 100, 0)}
          ELSE {NMul(v, Num(101, 100, 0)), NMul(v, Num(102, 100, 0))})

MetricEdits(d) ==
    LET entries == d.metrics.v
    IN  UNION {{Put(d, "metrics", List([entries EXCEPT ![i] = Put(entries[i], "value", v)])) :
                    v \in DeclaredValues(entries[i].value)}
               \cup {Put(d, "metrics", List(Remove(entries, i)))} : i \in 1 .. Len(entries)}
        \cup {Put(d, "metrics", List([entries EXCEPT ![1] = e])) :
                e \in {Str("Revenue"), None, DelKey(entries[1], "metric"),
                       Put(DelKey(entries[1], "metric"), "name", Str(entries[1].metric.s))}}
        \cup {Put(d, "metrics", v) : v \in {None, Int2Num(5), List(<<>>)}}
        \cup {DelKey(d, "metrics"), Put(DelKey(d, "metrics"), "provenance", None),
              Put(DelKey(d, "metrics"), "provenance", d.metrics)}

GateEdits(d) ==
    LET rows == d.stage_0.hard.v
        WithRows(new) == Put(d, "stage_0", Put(d.stage_0, "hard", new))
    IN  UNION {{WithRows(List([rows EXCEPT ![i] = Put(rows[i], "result", r)])) :
                    r \in {Str("PASS"), Str("Fail"), None}}
               \cup {WithRows(List(Remove(rows, i)))} : i \in 1 .. Len(rows)}
        \cup {WithRows(List(rows \o <<row>>)) :
                row \in {Put(rows[1], "result", Str("Fail")), Str("x"), DelKey(rows[1], "gate")}}
        \cup {WithRows(None)}
        \cup {Put(d, "stage_0", v) : v \in {d.stage_0.hard, None, Int2Num(0)}}

OtherEdits(d) ==
    {Put(d, "output_0", v) :
        v \in {None, Int2Num(1), Str("Mature path. Hard gates: PASS."), Str("Emergent"),
               List(<<Str("Mature")>>)}}
    \cup {Put(d, "path_reasons", v) : v \in {None, List(<<Str("TTM FCF <= 0")>>), List(<<>>)}}
    \cup {Put(d, "reverse_dcf", v) : v \in {None, Str("n/a"), EmptyDict}}
    \cup {Put(d, "reverse_dcf", Put(d.reverse_dcf, "shares", v)) :
            v \in {Int2Num(10), Num(101, 10, 0), Num(102, 10, 0), Str("10")}}
    \cup {Put(d, "reverse_dcf", Put(d.reverse_dcf, "net_debt", v)) :
            v \in {Int2Num(-10), Int2Num(42), Int2Num(43), Int2Num(-10000)}}
    \cup {Put(d, "provenance_issues", v) :
            v \in {None, Int2Num(5), List(<<Str("Revenue: missing quote")>>)}}
    \cup {DelKey(d, key) : key \in {"output_0", "path_reasons", "reverse_dcf",
                                    "provenance_issues"}}
    \cup {[key \in {"metrics", "stage_0"} |-> d[key]]}

\* the first declared metric edited together with output_0
MetricAndOutputEdits(d) ==
    LET entries == d.metrics.v
    IN  {Put(Put(d, "metrics", List([entries EXCEPT ![1] = Put(entries[1], "value", v)])),
             "output_0", output) :
            v \in DeclaredValues(entries[1].value),
            output \in {None, Str("Mature path. Hard gates: PASS.")}}

\* the dossiers handed to verify for a case: the analyst's dossier, that
\* dossier with one edit, its first metric edited together with output_0, and,
\* for a period without history, the dossier without any section
Dossiers(case) ==
    Bind(analyze(case.quarter, case.history, case.store), LAMBDA d :
        IF IsRaised(d) THEN {EmptyDict}
        ELSE {d} \cup MetricEdits(d) \cup GateEdits(d) \cup OtherEdits(d)
                 \cup MetricAndOutputEdits(d)
                 \cup (IF case.history = <<>> THEN {EmptyDict} ELSE {}))

Init ==
    /\ pc = "start"
    /\ \E case \in Cases :
        /\ quarter = case.quarter
        /\ history = case.history
        /\ store = case.store
        /\ dossier \in Dossiers(case)
    /\ args = None
    /\ out = None

\* the dossier becomes the one analyze returns; an exception ends the run
Analyze ==
    /\ pc = "start"
    /\ LET result == analyze(quarter, history, store)
       IN  IF IsRaised(result)
           THEN /\ out' = result
                /\ pc' = "analyze raised"
                /\ UNCHANGED dossier
           ELSE /\ dossier' = result
                /\ pc' = "analyzed"
                /\ UNCHANGED out
    /\ UNCHANGED <<quarter, history, store, args>>

CanonicalGateOrder ==
    <<"Circle of Competence", "Fraud/Controls", "Imminent Solvency", "Valuation",
      "Final Decision Gate">>

CanonicalProhibitedOrder == <<"NRR", "GRR", "Net Revenue Retention">>

\* the reasons with those of the given texts rearranged among their positions
Rearranged(reasons, texts) ==
    LET block == {i \in 1 .. Len(reasons) : reasons[i].text \in texts}
    IN  {[i \in 1 .. Len(reasons) |-> IF i \in block THEN reasons[perm[i]] ELSE reasons[i]] :
            perm \in {f \in [block -> block] : \A i, j \in block : f[i] = f[j] => i = j}}

\* the results of verify over all iteration orders of _HARD_GATES and of the
\* prohibited metric names: the order decides only how the reasons of each
\* of the two checks are arranged among themselves
VerifyResults(q, d, hist, docs) ==
    Bind(verify(q, d, hist, docs, CanonicalGateOrder, CanonicalProhibitedOrder),
         LAMBDA result :
        IF IsRaised(result) THEN {result}
        ELSE {QAResult(result.status, reasons) :
                reasons \in UNION {Rearranged(by_gate, {"Subscription metric not permitted"}) :
                    by_gate \in Rearranged(result.reasons,
                                           {"Missing hard gate", "Hard gate failed"})}})

Verify ==
    /\ pc \in {"start", "analyzed"}
    /\ out' \in VerifyResults(quarter, dossier, history, store)
    /\ pc' = IF pc = "start" THEN "verified" ELSE "verified analyzed"
    /\ UNCHANGED <<quarter, history, dossier, store, args>>

Next == Analyze \/ Verify

Spec == Init /\ [][Next]_vars

\* verify has returned or raised for the dossier at hand
VerifyDone == pc \in {"verified", "verified analyzed"}

\* the valuation metadata of the period carries no null input
NoNullValuationInput ==
    LET meta == Get(quarter.metadata, "valuation")
    IN  IsDict(meta) => \A key \in DOMAIN meta : meta[key] # None

\* verify has returned a QAResult for the dossier at hand
Verified == pc \in {"verified", "verified analyzed"} /\ ~IsRaised(out)

HasReason(text, name) ==
    \E i \in 1 .. Len(out.reasons) : out.reasons[i] = Reason(text, Str(name))

\* the deviation of a declared value from the recomputed one: relative, or
\* absolute when the recomputed value is exactly 0
Deviation(expected, value) ==
    IF expected = Zero THEN NAbs(NSub(expected, value))
    ELSE NDiv(NAbs(NSub(expected, value)), NAbs(expected))

\* entry is a dossier entry that declares a numeric value for the metric
\* beyond, or within, the tolerance of 1%
DeclaredBeyondTolerance(metric, entry) ==
    /\ entry # None
    /\ IsNum(Get(entry, "value"))
    /\ NLt(Num(1, 100, 0), Deviation(metric.value, entry["value"]))

DeclaredWithinTolerance(metric, entry) ==
    /\ entry # None
    /\ IsNum(Get(entry, "value"))
    /\ NLe(Deviation(metric.value, entry["value"]), Num(1, 100, 0))

(* C1: for any raw period without a null valuation input and any dossier,   *)
(* every sampled metric (one of the first sample_size numeric recomputed     *)
(* metrics) that the dossier declares with a numeric value deviating by more *)
(* than 1% (relatively, or absolutely when the recomputed value is exactly   *)
(* 0) makes verify return a BLOCKER with a mismatch reason naming the        *)
(* metric, and a sampled metric declared within the tolerance gets no        *)
(* mismatch reason.                                                          *)
C1_MismatchBlocks ==
    (VerifyDone /\ NoNullValuationInput) =>
        LET calc_result == calculate(quarter, history)
            declared == load_dossier_metrics(dossier)
        IN  (~IsRaised(calc_result) /\ IsList(declared)) =>
                LET sampled == Sample(calc_result.metrics)
                IN  \A i \in 1 .. Len(sampled) :
                        LET entry == DossierGet(declared.v, sampled[i].name)
                        IN  /\ DeclaredBeyondTolerance(sampled[i], entry) =>
                                    /\ ~IsRaised(out)
                                    /\ out.status = "BLOCKER"
                                    /\ HasReason("Metric mismatch", sampled[i].name)
                            /\ DeclaredWithinTolerance(sampled[i], entry) =>
                                    (~IsRaised(out) =>
                                        ~HasReason("Metric mismatch", sampled[i].name))

(* C1 on the calls of verify that return: the mismatch of a sampled metric   *)
(* blocks and is named, a declaration within the tolerance is not.           *)
C1_MismatchBlocksOnReturn ==
    Verified =>
        LET sampled == Sample(calculate(quarter, history).metrics)
            declared == load_dossier_metrics(dossier).v
        IN  \A i \in 1 .. Len(sampled) :
                LET entry == DossierGet(declared, sampled[i].name)
                IN  /\ DeclaredBeyondTolerance(sampled[i], entry) =>
                            /\ out.status = "BLOCKER"
                            /\ HasReason("Metric mismatch", sampled[i].name)
                    /\ DeclaredWithinTolerance(sampled[i], entry) =>
                            ~HasReason("Metric mismatch", sampled[i].name)

\* verify has blocked a dossier over a sampled metric recomputed as exactly 0
\* and declared beyond the tolerance, and has raised no mismatch over another
\* sampled metric declared within the tolerance
C1_Witness ==
    /\ Verified
    /\ LET sampled == Sample(calculate(quarter, history).metrics)
           declared == load_dossier_metrics(dossier).v
       IN  /\ \E i \in 1 .. Len(sampled) :
                /\ sampled[i].value = Zero
                /\ DeclaredBeyondTolerance(sampled[i], DossierGet(declared, sampled[i].name))
                /\ HasReason("Metric mismatch", sampled[i].name)
           /\ \E i \in 1 .. Len(sampled) :
                /\ DeclaredWithinTolerance(sampled[i], DossierGet(declared, sampled[i].name))
                /\ ~HasReason("Metric mismatch", sampled[i].name)

(* C2: whenever verify returns, the status is BLOCKER exactly when the list  *)
(* of reasons is non-empty and PASS exactly when it is empty, and every      *)
(* check that finds something (provenance, declared provenance issues,       *)
(* metric recomputation, hard gates, path consistency, reverse-DCF           *)
(* consistency, business-model rule) has at least one of its reasons in the  *)
(* result.                                                                   *)
C2_BlockerIffReasons ==
    Verified =>
        /\ out.status = "BLOCKER" <=> out.reasons # <<>>
        /\ out.status = "PASS" <=> out.reasons = <<>>
        /\ LET found == Checks(quarter, dossier, calculate(quarter, history), store,
                               CanonicalGateOrder, CanonicalProhibitedOrder)
           IN  \A c \in 1 .. Len(found) :
                    found[c].v # <<>> =>
                        \E i \in 1 .. Len(found[c].v), j \in 1 .. Len(out.reasons) :
                            out.reasons[j] = found[c].v[i]

\* verify has blocked a dossier whose only finding is the path inconsistency
C2_Witness ==
    /\ Verified
    /\ out.status = "BLOCKER"
    /\ out.reasons = <<Reason("Path marked Mature but reasons list not empty", Str(""))>>

\* the rows of stage_0 in either form, and the result a hard gate is listed
\* with (that of the last row naming it; None when no row names it)
GivenRows ==
    LET stage0 == GetOr(dossier, "stage_0", EmptyDict)
    IN  IF IsDict(stage0) THEN GetOr(stage0, "hard", List(<<>>)) ELSE stage0

HardRows == SelectSeq(GivenRows.v, IsDict)

ListedResult(gate) == SeenGet(HardRows, gate)

Passes(gate) == ListedResult(gate) \in {Str("Pass"), Str("PASS")}

NamedByGateReason(gate) ==
    HasReason("Missing hard gate", gate) \/ HasReason("Hard gate failed", gate)

(* C3: for any raw period without a null valuation input, every one of the  *)
(* five hard gates that the hard rows of stage_0 (given as {"hard": [...]}   *)
(* or as a bare list) lack or list with a result other than Pass or PASS     *)
(* makes verify return a BLOCKER with a reason naming that gate; a gate      *)
(* listed with Pass or PASS gets no reason, so with all five passed the      *)
(* hard-gate check adds none.                                                *)
C3_HardGatesBlock ==
    (VerifyDone /\ NoNullValuationInput /\ IsList(GivenRows)) =>
        \A gate \in HARD_GATES :
            /\ ~Passes(gate) =>
                    /\ ~IsRaised(out)
                    /\ out.status = "BLOCKER"
                    /\ NamedByGateReason(gate)
            /\ Passes(gate) => (~IsRaised(out) => ~NamedByGateReason(gate))

(* C3 on the calls of verify that return: a hard gate lacking or not passed  *)
(* blocks and is named, a hard gate passed is not.                           *)
C3_HardGatesBlockOnReturn ==
    (Verified /\ IsList(GivenRows)) =>
        \A gate \in HARD_GATES :
            /\ ~Passes(gate) => out.status = "BLOCKER" /\ NamedByGateReason(gate)
            /\ Passes(gate) => ~NamedByGateReason(gate)

\* verify has blocked a dossier whose stage_0 is a bare list of rows of which
\* four pass and one fails, and has named only the failing gate
C3_Witness ==
    /\ Verified
    /\ IsList(GetOr(dossier, "stage_0", EmptyDict))
    /\ Len(HardRows) = Cardinality(HARD_GATES)
    /\ \E gate \in HARD_GATES :
        /\ ~Passes(gate) /\ NamedByGateReason(gate)
        /\ \A other \in HARD_GATES \ {gate} : Passes(other) /\ ~NamedByGateReason(other)

(* C4: for every raw period whose valuation metadata holds no null and every *)
(* dossier (sections missing, output_0 null or not a str, metric entries     *)
(* that are no maps, a reverse_dcf that is no map), verify returns a         *)
(* QAResult: no exception escapes.                                           *)
C4_VerifyNeverRaises == (VerifyDone /\ NoNullValuationInput) => ~IsRaised(out)

MetricTexts ==
    {"Metric mismatch", "Metric missing from dossier", "Metric value not numeric in dossier"}

ConsistencyTexts ==
    {"Path marked Mature but reasons list not empty",
     "Shares in reverse DCF do not match valuation metadata",
     "Net debt in reverse DCF inconsistent with filings"}

\* the valuation metadata of the period, if any, holds numbers (and the paths)
NumericValuationInputs ==
    LET meta == Get(quarter.metadata, "valuation")
    IN  IsDict(meta) => \A key \in DOMAIN meta \ {"fcf_paths"} : IsNum(meta[key])

(* C5: when verify returns for the unmodified dossier that analyze built     *)
(* from the same raw period (of any unit scale, with or without numeric      *)
(* valuation metadata), no reason comes from the metric recomputation, the   *)
(* path-consistency check or the reverse-DCF shares and net-debt checks.     *)
C5_PipelineDossierConsistent ==
    (pc = "verified analyzed" /\ ~IsRaised(out) /\ NumericValuationInputs) =>
        \A i \in 1 .. Len(out.reasons) :
            out.reasons[i].text \notin MetricTexts \cup ConsistencyTexts

----------------------------------------------------------------------------
(* The trailing-twelve-month roll-up: Normalizer.normalize_quarter called   *)
(* with a raw history, and CalculationService.calculate, which normalizes   *)
(* the history before handing it to normalize_quarter.  out is the          *)
(* normalized current period.                                               *)

MaxPriors == 4

\* the raw prior periods: a Revenue and FCF figure each, in units, in
\* thousands by unit_scale or by a unit_text hint, or without Revenue
TtmPriors ==
    {CompanyQuarter("ACME", "2024-Q3", ("Revenue" :> Int2Num(1)), ("Cash" :> Int2Num(7)),
                    ("FCF" :> Int2Num(1)), EmptyDict, EmptyDict),
     CompanyQuarter("ACME", "2024-Q3", ("Revenue" :> Int2Num(2)), EmptyDict,
                    ("FCF" :> Int2Num(-1)), EmptyDict, ("unit_scale" :> Int2Num(1000))),
     CompanyQuarter("ACME", "2024-Q3", ("Revenue" :> Int2Num(3)), EmptyDict,
                    ("Fcf" :> Int2Num(2)), EmptyDict,
                    ("unit_text" :> Str("USD in thousands"))),
     CompanyQuarter("ACME", "2024-Q3", EmptyDict, ("Cash" :> Int2Num(9)),
                    ("CFO" :> Int2Num(4)), EmptyDict, ("unit_text" :> Str("In Millions")))}

TtmHistories == UNION {[1 .. n -> TtmPriors] : n \in 0 .. MaxPriors}

TtmCurrents ==
    {CompanyQuarter("ACME", "2024Q4", inc, ("Cash" :> Int2Num(2)) @@ ("TotalAssets" :> Int2Num(5)),
                    ("FCF" :> Int2Num(1)) @@ ("CFO" :> Int2Num(2)), EmptyDict, md) :
        inc \in {EmptyDict, ("Revenue" :> Int2Num(10)) @@ ("EBIT" :> Zero)},
        md \in {EmptyDict, ("unit_text" :> Str("USD in thousands"))}}

InitTtm ==
    /\ pc = "ttm"
    /\ quarter \in TtmCurrents
    /\ history \in TtmHistories
    /\ dossier = None
    /\ store = None
    /\ args = None
    /\ out = None

\* Normalizer().normalize_quarter(quarter, history)
NormalizeWithHistory ==
    /\ pc = "ttm"
    /\ out' = normalize_quarter(quarter, history)
    /\ pc' = "normalized"
    /\ UNCHANGED <<quarter, history, dossier, store, args>>

\* CalculationService().calculate(quarter, history).quarter
CalculateTtm ==
    /\ pc = "ttm"
    /\ out' = calculate(quarter, history).quarter
    /\ pc' = "calculated"
    /\ UNCHANGED <<quarter, history, dossier, store, args>>

NextTtm == NormalizeWithHistory \/ CalculateTtm

SpecTtm == InitTtm /\ [][NextTtm]_vars

\* the figure a raw period reports for a field, in base units: the value
\* times the period's own unit scale, zero when the period lacks the field

InBaseUnits(q, section, field) ==
    IF get_metric(q, section, field) = None THEN Zero
    ELSE NMul(get_metric(q, section, field), resolve_unit_scale(q))

RECURSIVE SumOfPriors(_, _, _)
SumOfPriors(priors, section, field) ==
    IF priors = <<>> THEN Zero
    ELSE NAdd(InBaseUnits(Head(priors), section, field),
              SumOfPriors(Tail(priors), section, field))

\* the three most recent prior periods of the history
RecentPriors ==
    [i \in 1 .. (IF Len(history) < 3 THEN Len(history) ELSE 3) |->
        history[Len(history) - (IF Len(history) < 3 THEN Len(history) ELSE 3) + i]]

\* C11: for each flow field present in the current period, metadata.ttm[field]
\* is the current value plus the values of the field in the three most recent
\* prior periods, each in base units (multiplied by its own unit scale once),
\* for a raw history of any length and for the history calculate has already
\* normalized; flow fields absent from the current period get no TTM entry and
\* stock fields are the current period's values, unsummed.
C11_TtmSumsLastThree ==
    pc \in {"normalized", "calculated"} =>
        /\ \A i \in 1 .. Len(FLOW_METRICS) :
            LET section == FLOW_METRICS[i][1]
                field == FLOW_METRICS[i][2]
            IN  IF get_metric(quarter, section, field) # None
                THEN /\ field \in DOMAIN out.metadata["ttm"]
                     /\ out.metadata["ttm"][field] =
                            NAdd(InBaseUnits(quarter, section, field),
                                 SumOfPriors(RecentPriors, section, field))
                ELSE field \notin DOMAIN out.metadata["ttm"]
        /\ \A i \in 1 .. Len(STOCK_METRICS) :
            LET section == STOCK_METRICS[i][1]
                field == STOCK_METRICS[i][2]
            IN  IF get_metric(quarter, section, field) # None
                THEN /\ field \in DOMAIN out.metadata["ttm"]
                     /\ out.metadata["ttm"][field] = InBaseUnits(quarter, section, field)
                ELSE field \notin DOMAIN out.metadata["ttm"]

\* calculate on a history of four periods with different unit scales, the
\* oldest of which reports a Revenue that the window leaves out
C11_Witness ==
    /\ pc = "calculated"
    /\ Len(history) = 4
    /\ Get(history[1].income_stmt, "Revenue") = Int2Num(1)
    /\ Get(history[2].metadata, "unit_scale") = Int2Num(1000)
    /\ Get(history[3].metadata, "unit_text") = Str("USD in thousands")
    /\ Get(history[4].income_stmt, "Revenue") = Int2Num(1)
    /\ Get(quarter.metadata, "unit_text") = Str("USD in thousands")
    /\ Get(quarter.income_stmt, "Revenue") = Int2Num(10)
    /\ out.metadata["ttm"]["Revenue"] = Int2Num(15001)

----------------------------------------------------------------------------
(* One call of WACCCalculator.derive: args holds the WACCInputs, out the    *)
(* WACCResult.                                                              *)

WaccParams ==
    [risk_free_rate : {Num(4, 100, 0), Zero},
     equity_risk_premium : {Num(5, 100, 0)},
     beta : {Int2Num(1)},
     cost_of_debt : {Num(6, 100, 0), Num(12, 100, 0), Zero},
     tax_rate : {Num(25, 100, 0), Zero},
     market_equity_value : {Int2Num(800), Zero, Int2Num(-100)},
     market_debt_value : {Int2Num(200), Zero, Int2Num(-50), Int2Num(100)},
     equity_adjustment_bps : {Zero, Int2Num(100), Int2Num(150), Int2Num(300), Int2Num(-300)}]

InitWacc ==
    /\ pc = "wacc"
    /\ args \in WaccParams
    /\ quarter = None
    /\ history = None
    /\ dossier = None
    /\ store = None
    /\ out = None

Derive ==
    /\ pc = "wacc"
    /\ out' = derive(args)
    /\ pc' = "derived"
    /\ UNCHANGED <<quarter, history, dossier, store, args>>

NextWacc == Derive

SpecWacc == InitWacc /\ [][NextWacc]_vars

MaxAdjustmentBps == 150

\* the adjustment held to +/- MaxAdjustmentBps basis points
Clamp(bps) ==
    IF NLt(Int2Num(MaxAdjustmentBps), bps) THEN Int2Num(MaxAdjustmentBps)
    ELSE IF NLt(bps, Int2Num(-MaxAdjustmentBps)) THEN Int2Num(-MaxAdjustmentBps)
    ELSE bps

\* C12: the cost of equity of the WACC result is risk-free + beta x equity risk
\* premium + the adjustment clamped to +/-150 basis points, over 10,000, for
\* every adjustment, those beyond +/-150 basis points included.
C12_CostOfEquityClamped ==
    pc = "derived" =>
        out.cost_of_equity =
            NAdd(NAdd(args.risk_free_rate, NMul(args.beta, args.equity_risk_premium)),
                 NDiv(Clamp(args.equity_adjustment_bps), Int2Num(10000)))

Between(x, a, b) == (NLe(a, x) /\ NLe(x, b)) \/ (NLe(b, x) /\ NLe(x, a))

UnitWeights ==
    /\ NLe(Zero, out.weights.equity) /\ NLe(out.weights.equity, Int2Num(1))
    /\ NLe(Zero, out.weights.debt) /\ NLe(out.weights.debt, Int2Num(1))
    /\ NAdd(out.weights.equity, out.weights.debt) = Int2Num(1)

\* C13 as stated: the weights lie in [0,1] and sum to 1, are 100% equity when
\* market equity and market debt total zero, and the WACC point estimate lies
\* within [cost_of_debt_after_tax, cost_of_equity].
C13_WaccWithinCosts ==
    pc = "derived" =>
        /\ UnitWeights
        /\ NAdd(args.market_equity_value, args.market_debt_value) = Zero =>
                out.weights = [equity |-> Int2Num(1), debt |-> Zero]
        /\ NLe(out.cost_of_debt_after_tax, out.point)
        /\ NLe(out.point, out.cost_of_equity)

\* C13: the weights lie in [0,1] and sum to 1, are 100% equity when neither
\* market value is positive, and the WACC point estimate lies between the
\* after-tax cost of debt and the cost of equity, whichever of the two is the
\* larger.
C13_WaccBetweenCosts ==
    pc = "derived" =>
        /\ UnitWeights
        /\ (NLe(args.market_equity_value, Zero) /\ NLe(args.market_debt_value, Zero)) =>
                out.weights = [equity |-> Int2Num(1), debt |-> Zero]
        /\ Between(out.point, out.cost_of_debt_after_tax, out.cost_of_equity)

\* a result with both weights strictly inside (0,1) and an after-tax cost of
\* debt above the cost of equity
C13_Witness ==
    /\ pc = "derived"
    /\ NLt(Zero, out.weights.equity) /\ NLt(Zero, out.weights.debt)
    /\ NLt(out.cost_of_equity, out.cost_of_debt_after_tax)
    /\ NLt(out.cost_of_equity, out.point)
    /\ NLt(out.point, out.cost_of_debt_after_tax)

----------------------------------------------------------------------------
(* Valuation of one period: ValuationBuilder.build on the period, and        *)
(* CalculationService.calculate without history.  out is the bundle (or     *)
(* None), respectively the CalculationResult, or the exception raised.      *)

\* the discount-rate inputs: the usual ones, all zero, and nearly zero
RateOverrides ==
    {EmptyDict,
     [risk_free_rate |-> Zero, equity_risk_premium |-> Zero, cost_of_debt |-> Zero],
     [risk_free_rate |-> Num(1, 1000, 0), equity_risk_premium |-> Zero,
      cost_of_debt |-> Zero]}

\* the inflation / real-GDP anchors: defaulted, below the cap, above it,
\* negative, partly null, and not a dict
TerminalOverrides ==
    {EmptyDict,
     [terminal_inputs |-> [inflation |-> Num(2, 100, 0), real_gdp |-> Num(1, 100, 0)]],
     [terminal_inputs |-> [inflation |-> Num(10, 100, 0), real_gdp |-> Num(5, 100, 0)]],
     [terminal_inputs |-> [inflation |-> Num(-3, 100, 0), real_gdp |-> Num(1, 100, 0)]],
     [terminal_inputs |-> [inflation |-> None, real_gdp |-> Num(1, 100, 0)]],
     [terminal_inputs |-> Str("n/a")]}

AdjustmentOverrides ==
    {EmptyDict, [equity_adjustment_bps |-> Int2Num(100)],
     [equity_adjustment_bps |-> Int2Num(-1000)], [equity_adjustment_bps |-> None]}

\* the FCF paths: Base with a scenario, Base alone, Base with an empty
\* scenario, a scenario without Base, and none
PathOverrides ==
    {EmptyDict,
     [fcf_paths |-> [Base |-> <<Int2Num(7), Int2Num(8)>>]],
     [fcf_paths |-> [Base |-> <<Int2Num(7), Int2Num(8)>>, Bull |-> <<>>]],
     [fcf_paths |-> [Bull |-> <<Int2Num(9), Int2Num(10)>>]],
     [fcf_paths |-> None]}

PricingOverrides ==
    {EmptyDict, [net_debt |-> Int2Num(40)], [share_price |-> None],
     [shares_diluted |-> Str("5")]}

ValuationMetadata ==
    {pricing @@ paths @@ adjustment @@ terminal @@ rates @@ CompleteValuation :
        rates \in RateOverrides, terminal \in TerminalOverrides,
        adjustment \in AdjustmentOverrides, paths \in PathOverrides,
        pricing \in PricingOverrides}

InitVal ==
    /\ pc = "valuation"
    /\ \E meta \in ValuationMetadata :
            quarter = PerturbedQuarter(HealthyPeriod, ("valuation" :> meta))
    /\ history = <<>>
    /\ dossier = None
    /\ store = None
    /\ args = None
    /\ out = None

\* ValuationBuilder().build(quarter)
BuildValuation ==
    /\ pc = "valuation"
    /\ out' = ValuationBuilder_build(quarter)
    /\ pc' = "built"
    /\ UNCHANGED <<quarter, history, dossier, store, args>>

\* CalculationService().calculate(quarter, history)
Calculate ==
    /\ pc = "valuation"
    /\ out' = calculate(quarter, history)
    /\ pc' = "calculated"
    /\ UNCHANGED <<quarter, history, dossier, store, args>>

NextVal == BuildValuation \/ Calculate

SpecVal == InitVal /\ [][NextVal]_vars

\* the bundle of the run, None when there is none or the call raised
Bundle ==
    IF pc = "built" /\ ~IsRaised(out) THEN out
    ELSE IF pc = "calculated" /\ ~IsRaised(out) THEN out.valuation
    ELSE None

\* C14: the terminal growth of every bundle is strictly less than its WACC
\* point estimate, for every point estimate and every inflation / real-GDP
\* anchor pair.
C14_TerminalGrowthBelowWacc ==
    Bundle # None => NLt(Bundle.terminal_growth, Bundle.wacc.point)

\* C14 for a positive point estimate: there the cap max(wacc - 0.5pp, 0)
\* keeps the terminal growth strictly below the point estimate
C14_TerminalGrowthBelowPositiveWacc ==
    (Bundle # None /\ NLt(Zero, Bundle.wacc.point)) =>
        NLt(Bundle.terminal_growth, Bundle.wacc.point)

ValuationMeta == quarter.metadata["valuation"]

\* the valuation metadata supplies all WACC inputs, a share price, diluted
\* shares and a Base FCF path
SuppliesValuationInputs ==
    /\ \A key \in RequiredInputs \cup {"share_price", "shares_diluted"} :
            safe_float(Get(ValuationMeta, key), None) # None
    /\ IsDict(Get(ValuationMeta, "fcf_paths"))
    /\ "Base" \in DOMAIN ValuationMeta["fcf_paths"]
    /\ ValuationMeta["fcf_paths"]["Base"] # <<>>

\* in addition every FCF path given is non-empty and the equity adjustment,
\* where given, is a number
SuppliesWellFormedInputs ==
    /\ SuppliesValuationInputs
    /\ \A name \in DOMAIN ValuationMeta["fcf_paths"] :
            ValuationMeta["fcf_paths"][name] # <<>>
    /\ "equity_adjustment_bps" \in DOMAIN ValuationMeta =>
            IsNum(ValuationMeta["equity_adjustment_bps"])

SensitivityKeys == {"wacc+100bps", "wacc-100bps", "g+50bps", "g-50bps"}

ValuationMetricNames ==
    <<"WACC-point", "WACC-lower", "WACC-upper", "Cost of Equity",
      "Cost of Debt (after tax)", "Terminal Growth", "Hurdle IRR">>

\* calculate has returned a bundle with a base IRR, one IRR per non-Base
\* scenario and the four sensitivity points, and the seven valuation metrics
\* follow the ten base metrics
FullValuationResult ==
    /\ ~IsRaised(out)
    /\ out.valuation # None
    /\ out.valuation.irr_analysis.irr # None
    /\ {out.valuation.irr_analysis.scenarios[i].name :
            i \in 1 .. Len(out.valuation.irr_analysis.scenarios)}
         = DOMAIN ValuationMeta["fcf_paths"] \ {"Base"}
    /\ Len(out.valuation.irr_analysis.scenarios)
         = Cardinality(DOMAIN ValuationMeta["fcf_paths"] \ {"Base"})
    /\ \A i \in 1 .. Len(out.valuation.irr_analysis.scenarios) :
            out.valuation.irr_analysis.scenarios[i].irr # None
    /\ DOMAIN out.valuation.irr_analysis.sensitivity = SensitivityKeys
    /\ Len(out.metrics) = 10 + Len(ValuationMetricNames)
    /\ [i \in 1 .. 10 |-> out.metrics[i]] = MetricBuilder_build(out.quarter)
    /\ [i \in 1 .. Len(ValuationMetricNames) |-> out.metrics[10 + i].name]
         = ValuationMetricNames

----------------------------------------------------------------------------
(* calculators/dcf.py: internal_rate_of_return, over exact arithmetic.  A    *)
(* division by a zero power of (1 + rate) raises ZeroDivisionError.          *)

DerivativeEpsilon == Num(1, 1, -9)

RECURSIVE NPow(_, _)
NPow(x, p) == IF p = 0 THEN Int2Num(1) ELSE NMul(x, NPow(x, p - 1))

\* the inner loop from the given period on: [npv, d_npv], or the exception
RECURSIVE irr_sums(_, _, _, _, _)
irr_sums(cash_flows, rate, period, npv, d_npv) ==
    IF period = Len(cash_flows) THEN [npv |-> npv, d_npv |-> d_npv]
    ELSE Bind2(NPow(NAdd(Int2Num(1), rate), period), cash_flows[period + 1],
               LAMBDA denom, cf :
            IF denom = Zero THEN Raised("ZeroDivisionError")
            ELSE irr_sums(cash_flows, rate, period + 1,
                          NAdd(npv, NDiv(cf, denom)),
                          IF period > 0
                          THEN NSub(d_npv, NDiv(NMul(Int2Num(period), cf),
                                                NMul(denom, NAdd(Int2Num(1), rate))))
                          ELSE d_npv))

\* one pass of the outer loop: the new rate, None when the derivative is
\* below 1e-9 in magnitude, or the exception
newton_step(cash_flows, rate) ==
    Bind(irr_sums(cash_flows, rate, 0, Zero, Zero), LAMBDA sums :
        IF IsRaised(sums) THEN sums
        ELSE IF NLt(NAbs(sums.d_npv), DerivativeEpsilon) THEN None
        ELSE NSub(rate, NDiv(sums.npv, sums.d_npv)))

RECURSIVE newton(_, _, _, _)
newton(cash_flows, rate, tol, remaining) ==
    IF remaining = 0 THEN None
    ELSE Bind(newton_step(cash_flows, rate), LAMBDA new_rate :
            IF ~IsNum(new_rate) THEN new_rate
            ELSE IF NLt(NAbs(NSub(new_rate, rate)), tol) THEN new_rate
            ELSE newton(cash_flows, new_rate, tol, remaining - 1))

\* internal_rate_of_return(cash_flows, guess=guess, tol=tol, max_iter=max_iter)
\* for a sequence of cash flows
internal_rate_of_return(cash_flows, guess, tol, max_iter) ==
    IF Len(cash_flows) < 2 THEN None
    ELSE newton(cash_flows, guess, tol, max_iter)

----------------------------------------------------------------------------
(* One call of internal_rate_of_return: args holds the cash flows, the      *)
(* guess, the tolerance and the iteration limit.                            *)

MaxIter == 3

Tolerances == {Num(1, 1, -6), Num(1, 2, 0)}

\* cash flows and guesses whose Newton iterates stay short in exact
\* arithmetic: too few flows; a rate of -1 reached after one step and given
\* as the guess; a zero derivative; a start at the root; a root reached
\* exactly after one step; and iterates that move apart
ExactCalls ==
    {[cash_flows |-> <<>>, guess |-> Num(1, 10, 0)],
     [cash_flows |-> <<Int2Num(-20)>>, guess |-> Num(1, 10, 0)],
     [cash_flows |-> <<Int2Num(-20), Int2Num(11)>>, guess |-> Num(1, 10, 0)],
     [cash_flows |-> <<Int2Num(-20), Int2Num(11)>>, guess |-> Int2Num(-1)],
     [cash_flows |-> <<Int2Num(-100), Zero, Zero>>, guess |-> Num(1, 10, 0)],
     [cash_flows |-> <<Zero, Zero>>, guess |-> Zero],
     [cash_flows |-> <<Int2Num(-10), Int2Num(10)>>, guess |-> Zero],
     [cash_flows |-> <<Int2Num(-10), Zero, Int2Num(10)>>, guess |-> Int2Num(1)],
     [cash_flows |-> <<Int2Num(-10), Int2Num(10)>>, guess |-> Int2Num(1)],
     [cash_flows |-> <<Int2Num(-10), Int2Num(10)>>, guess |-> Int2Num(-2)]}

\* calls that approach a root step by step, under the loose tolerance
ApproachingCalls ==
    {[cash_flows |-> <<Int2Num(-1), Int2Num(2)>>, guess |-> Zero],
     [cash_flows |-> <<Int2Num(-10), Int2Num(10)>>, guess |-> Num(-1, 2, 0)]}

IrrArgs ==
    {[cash_flows |-> call.cash_flows, guess |-> call.guess, tol |-> tol,
      max_iter |-> max_iter] :
        call \in ExactCalls, tol \in Tolerances, max_iter \in 0 .. MaxIter}
    \cup
    {[cash_flows |-> call.cash_flows, guess |-> call.guess, tol |-> Num(1, 2, 0),
      max_iter |-> max_iter] :
        call \in ApproachingCalls, max_iter \in 0 .. MaxIter}

InitIrr ==
    /\ pc = "irr"
    /\ args \in IrrArgs
    /\ quarter = None
    /\ history = None
    /\ dossier = None
    /\ store = None
    /\ out = None

CallIrr ==
    /\ pc = "irr"
    /\ out' = internal_rate_of_return(args.cash_flows, args.guess, args.tol, args.max_iter)
    /\ pc' = "irr returned"
    /\ UNCHANGED <<quarter, history, dossier, store, args>>

NextIrr == CallIrr

SpecIrr == InitIrr /\ [][NextIrr]_vars

\* the rate after k Newton steps from the guess; None or the exception once
\* a step has no rate to give
RECURSIVE RateAfter(_)
RateAfter(k) ==
    IF k = 0 THEN args.guess
    ELSE Bind(RateAfter(k - 1), LAMBDA rate :
            IF IsNum(rate) THEN newton_step(args.cash_flows, rate) ELSE rate)

\* step k yields a rate within tol of the rate before it
ConvergesAt(k) ==
    /\ IsNum(RateAfter(k))
    /\ NLt(NAbs(NSub(RateAfter(k), RateAfter(k - 1))), args.tol)

\* step k is taken: every step before it gave a rate and none converged
Live(k) == \A j \in 1 .. k - 1 : IsNum(RateAfter(j)) /\ ~ConvergesAt(j)

\* the result is "no solution" or the rate of the first step that converged
NoSolutionOrConverged ==
    \/ out = None
    \/ \E k \in 1 .. args.max_iter :
        /\ Live(k)
        /\ ConvergesAt(k)
        /\ out = RateAfter(k)

\* the cases in which the result is "no solution": fewer than two cash
\* flows, no step among the max_iter that converges, and a step whose
\* derivative is below 1e-9 in magnitude
NoSolutionCases ==
    /\ Len(args.cash_flows) < 2 => out = None
    /\ (Len(args.cash_flows) >= 2
            /\ \A k \in 1 .. args.max_iter : Live(k) => ~ConvergesAt(k)) => out = None
    /\ Len(args.cash_flows) >= 2 =>
            \A k \in 1 .. args.max_iter :
                (Live(k) /\ RateAfter(k) = None) => out = None

\* C15: internal_rate_of_return ends within max_iter Newton steps and returns
\* "no solution" or a rate that its last step moved by less than tol; it
\* returns "no solution" for fewer than two cash flows, for a derivative below
\* 1e-9 in magnitude and when max_iter steps pass without convergence, and
\* never the guess or an unconverged iterate.
C15_IrrNoSolutionOrConverged ==
    pc = "irr returned" =>
        /\ ~IsRaised(out)
        /\ NoSolutionOrConverged
        /\ NoSolutionCases

\* C15 on the calls that return: the result is "no solution" or a converged
\* rate, and "no solution" in the cases named
C15_IrrNoSolutionOrConvergedOnReturn ==
    (pc = "irr returned" /\ ~IsRaised(out)) =>
        /\ NoSolutionOrConverged
        /\ NoSolutionCases

\* a call that returns a rate after more than one Newton step
C15_Witness ==
    /\ pc = "irr returned"
    /\ IsNum(out)
    /\ args.max_iter >= 2
    /\ ~ConvergesAt(1)
    /\ ConvergesAt(2)
    /\ out # args.guess


\* ---------------------------------------------------------------------------
\* Stage-0 gates: StageZeroBuilder.build over metric sets and TTM metadata
\* ---------------------------------------------------------------------------

GateMetric(name, value) ==
    [name |-> name, value |-> value, unit |-> Str("ratio"), period |-> Str("2024Q4"),
     source_doc_id |-> Str("DOC-1"), page_or_section |-> Str("p.1"),
     quote |-> Str("quote"), url |-> Str("https://example.com/doc"),
     inputs |-> <<>>, metadata |-> EmptyDict]

\* the metrics of a name -> value-or-Absent choice, in the order of the names
GateMetrics(names, choice) ==
    LET present == SelectSeq(names, LAMBDA name : choice[name] # Absent)
    IN  [i \in 1 .. Len(present) |-> GateMetric(present[i], choice[present[i]])]

\* the dict of the entries that are there
GateTtm(keys, choice) ==
    [key \in {k \in keys : choice[k] # Absent} |-> choice[key]]

GateMetricNames ==
    <<"Revenue", "Accruals Ratio", "Net Debt / EBITDA", "ROIC", "WACC-point", "Take Rate">>

GateTtmKeys == {"Revenue", "FCF", "Cash"}

Tenth == Num(1, 10, 0)

GateDefault ==
    [Revenue |-> Int2Num(100), AccrualsRatio |-> Num(5, 100, 0), NetLeverage |-> Int2Num(2),
     ROIC |-> Num(12, 100, 0), WaccPoint |-> Num(8, 100, 0), TakeRate |-> Num(2, 10, 0),
     TtmRevenue |-> Int2Num(400), TtmFcf |-> Int2Num(5), TtmCash |-> Int2Num(10),
     path |-> "Mature", horizon |-> FLIP_TRIGGER_HORIZON_DAYS, today |-> Today]

\* quarterly Revenue metric against TTM revenue
RevenueChoices ==
    {[GateDefault EXCEPT !.Revenue = r, !.TtmRevenue = t] :
        r \in {Absent, ABSTAIN, Int2Num(100), Int2Num(-5), Zero},
        t \in {Absent, Zero, Int2Num(50), Int2Num(-3)}}

\* the inputs of the Fraud/Controls, Imminent Solvency and Valuation gates
HardChoices ==
    {[GateDefault EXCEPT !.AccrualsRatio = a, !.NetLeverage = l, !.TtmFcf = f,
                         !.ROIC = r, !.WaccPoint = w] :
        a \in {Absent, ABSTAIN, Tenth, NNeg(Tenth), Num(11, 100, 0), Num(-2, 10, 0)},
        l \in {Absent, ABSTAIN, Int2Num(4), Int2Num(5)},
        f \in {Absent, Zero, Int2Num(5), Int2Num(-1)},
        r \in {Absent, ABSTAIN, Num(8, 100, 0), Tenth},
        w \in {Absent, ABSTAIN, Num(8, 100, 0), Tenth}}

\* the inputs of the soft gates, the builder's horizon and the day of the build
SoftChoices ==
    {[GateDefault EXCEPT !.AccrualsRatio = a, !.TtmCash = c, !.TtmFcf = f, !.TakeRate = t,
                         !.horizon = h, !.today = d, !.path = p] :
        a \in {Absent, ABSTAIN, Num(15, 100, 0), Num(-15, 100, 0), Num(16, 100, 0), Zero},
        c \in {Absent, Zero, Int2Num(10)},
        f \in {Absent, Zero, Int2Num(5)},
        t \in {Absent, ABSTAIN, Tenth, Num(2, 10, 0)},
        h \in {FLIP_TRIGGER_HORIZON_DAYS, 30, 0},
        d \in {Today, Today + 7},
        p \in {"Mature", "Emergent"}}

GateChoices == RevenueChoices \cup HardChoices \cup SoftChoices

\* the arguments of one build, and the builder it is called on
GateArgs(c) ==
    [self |-> StageZeroBuilder(c.horizon),
     today |-> c.today,
     metrics |-> GateMetrics(GateMetricNames,
                     [name \in {"Revenue", "Accruals Ratio", "Net Debt / EBITDA", "ROIC",
                                "WACC-point", "Take Rate"} |->
                         CASE name = "Revenue" -> c.Revenue
                           [] name = "Accruals Ratio" -> c.AccrualsRatio
                           [] name = "Net Debt / EBITDA" -> c.NetLeverage
                           [] name = "ROIC" -> c.ROIC
                           [] name = "WACC-point" -> c.WaccPoint
                           [] OTHER -> c.TakeRate]),
     metadata |-> ("ttm" :> GateTtm(GateTtmKeys,
                     [key \in GateTtmKeys |->
                         CASE key = "Revenue" -> c.TtmRevenue
                           [] key = "FCF" -> c.TtmFcf
                           [] OTHER -> c.TtmCash])),
     path |-> c.path]

InitGates ==
    /\ pc = "gates"
    /\ args \in {GateArgs(c) : c \in GateChoices}
    /\ quarter = None
    /\ history = None
    /\ dossier = None
    /\ store = None
    /\ out = None

BuildGates ==
    /\ pc = "gates"
    /\ out' = StageZeroBuilder_build(args.self, args.today, args.metrics, args.metadata,
                                     args.path)
    /\ pc' = "gates built"
    /\ UNCHANGED <<quarter, history, dossier, store, args>>

NextGates == BuildGates

SpecGates == InitGates /\ [][NextGates]_vars

\* the row of a gate among the rows of a build
RowOf(rows, gate) == rows[CHOOSE i \in 1 .. Len(rows) : rows[i].gate = Str(gate)]

RowPasses(rows, gate) == RowOf(rows, gate).result = Str("Pass")

TtmOf(metadata) == metadata["ttm"]

Positive(dict, key) == Get(dict, key) # None /\ NLt(Zero, Get(dict, key))

\* C17: every build yields exactly five hard gate rows, and the Circle of
\* Competence row is Pass if and only if TTM revenue (metadata.ttm Revenue) is
\* present and greater than 0, whatever the quarterly Revenue metric is.
C17_CircleFollowsTtmRevenue ==
    pc = "gates built" =>
        /\ Len(out.hard) = 5
        /\ RowPasses(out.hard, "Circle of Competence")
               <=> Positive(TtmOf(args.metadata), "Revenue")

\* every build yields exactly five hard gate rows, and the Circle of Competence
\* row is Pass if and only if the quarterly Revenue metric, when numeric and not
\* zero, is greater than 0, and otherwise TTM revenue is present and above 0
C17_CircleFollowsMetricFirst ==
    pc = "gates built" =>
        /\ Len(out.hard) = 5
        /\ RowPasses(out.hard, "Circle of Competence")
               <=> LET revenue == metric_value(args.metrics, "Revenue")
                   IN  IF revenue # None /\ revenue # Zero THEN NLt(Zero, revenue)
                       ELSE Positive(TtmOf(args.metadata), "Revenue")

\* a build whose quarterly Revenue metric is positive while TTM revenue is absent
C17_Witness ==
    /\ pc = "gates built"
    /\ metric_value(args.metrics, "Revenue") = Int2Num(100)
    /\ "Revenue" \notin DOMAIN TtmOf(args.metadata)
    /\ RowPasses(out.hard, "Circle of Competence")

\* some metric of the name holds a number that satisfies P
NumericMetric(metrics, name, P(_)) ==
    \E i \in 1 .. Len(metrics) :
        metrics[i].name = name /\ IsNum(metrics[i].value) /\ P(metrics[i].value)

NoNumericMetric(metrics, name) == ~NumericMetric(metrics, name, LAMBDA v : TRUE)

Failed(rows, gate) == RowOf(rows, gate).result = Str("Fail")

\* C18: for every metric set and TTM metadata, the Fraud/Controls gate is Pass
\* iff the Accruals Ratio is numeric and within [-0.10, +0.10], the Imminent
\* Solvency gate is Pass iff Net Debt / EBITDA is numeric and <= 4 or TTM FCF is
\* present and > 0, and the Valuation gate is Pass iff ROIC and WACC-point are
\* both numeric and ROIC >= WACC-point; a gate whose needed metrics are all
\* ABSTAIN or absent is Fail, and every gate is Pass or Fail.
C18_HardGateRules ==
    pc = "gates built" =>
        /\ RowPasses(out.hard, "Fraud/Controls")
               <=> NumericMetric(args.metrics, "Accruals Ratio",
                       LAMBDA v : NLe(NNeg(Tenth), v) /\ NLe(v, Tenth))
        /\ RowPasses(out.hard, "Imminent Solvency")
               <=> \/ NumericMetric(args.metrics, "Net Debt / EBITDA",
                          LAMBDA v : NLe(v, Int2Num(4)))
                   \/ Positive(TtmOf(args.metadata), "FCF")
        /\ RowPasses(out.hard, "Valuation")
               <=> NumericMetric(args.metrics, "ROIC", LAMBDA r :
                       NumericMetric(args.metrics, "WACC-point", LAMBDA w : NLe(w, r)))
        /\ NoNumericMetric(args.metrics, "Accruals Ratio")
               => Failed(out.hard, "Fraud/Controls")
        /\ (/\ NoNumericMetric(args.metrics, "Net Debt / EBITDA")
            /\ "FCF" \notin DOMAIN TtmOf(args.metadata))
               => Failed(out.hard, "Imminent Solvency")
        /\ (NoNumericMetric(args.metrics, "ROIC") /\ NoNumericMetric(args.metrics, "WACC-point"))
               => Failed(out.hard, "Valuation")
        /\ \A i \in 1 .. Len(out.hard) : out.hard[i].result \in {Str("Pass"), Str("Fail")}

\* a build where the accruals ratio sits on the lower edge of the band, leverage
\* is above 4 but TTM FCF is positive, and ROIC equals the WACC point: all pass
C18_Witness ==
    /\ pc = "gates built"
    /\ metric_value(args.metrics, "Accruals Ratio") = NNeg(Tenth)
    /\ metric_value(args.metrics, "Net Debt / EBITDA") = Int2Num(5)
    /\ Get(TtmOf(args.metadata), "FCF") = Int2Num(5)
    /\ metric_value(args.metrics, "ROIC") = metric_value(args.metrics, "WACC-point")
    /\ metric_value(args.metrics, "ROIC") = Tenth
    /\ RowPasses(out.hard, "Fraud/Controls")
    /\ RowPasses(out.hard, "Imminent Solvency")
    /\ RowPasses(out.hard, "Valuation")

\* the day a flip trigger is due on
DueDay(trigger) == trigger.parts[Len(trigger.parts)]

\* C19: for every input the build yields exactly six soft gate rows, each Pass or
\* Soft-Pass and never Fail; a soft row carries a flip trigger if and only if it
\* is Soft-Pass; and the trigger is due on the day of the build plus the
\* builder's horizon, which is 90 days for the default builder.
C19_SoftGatesAndTriggers ==
    pc = "gates built" =>
        /\ Len(out.soft) = 6
        /\ \A i \in 1 .. Len(out.soft) :
               /\ out.soft[i].result \in {Str("Pass"), Str("Soft-Pass")}
               /\ out.soft[i].flip_trigger # None <=> out.soft[i].result = Str("Soft-Pass")
               /\ out.soft[i].flip_trigger # None =>
                      /\ DueDay(out.soft[i].flip_trigger)
                             = Int2Num(args.today + args.self.flip_trigger_horizon)
                      /\ args.self = DefaultBuilder =>
                             DueDay(out.soft[i].flip_trigger) = Int2Num(args.today + 90)

\* a build a week on by a builder with a 30-day horizon, where one soft row
\* passes and another is Soft-Pass with a trigger due on day 37
C19_Witness ==
    /\ pc = "gates built"
    /\ args.self.flip_trigger_horizon = 30
    /\ args.today = Today + 7
    /\ RowPasses(out.soft, "Accounting Sanity")
    /\ RowOf(out.soft, "Unit Economics").result = Str("Soft-Pass")
    /\ DueDay(RowOf(out.soft, "Unit Economics").flip_trigger) = Int2Num(37)

\* ---------------------------------------------------------------------------
\* Path classifier: determine_path over TTM values, balance sheets and histories
\* ---------------------------------------------------------------------------

MaxQuarters == 9

\* a prior quarter that discloses a segment, or none
PathPrior(disclosed) ==
    CompanyQuarter("ACME", "2024-Q3", ("Revenue" :> Int2Num(90)), ("Cash" :> Int2Num(12)),
                   ("FCF" :> Int2Num(5)),
                   IF disclosed THEN ("Cloud" :> ("Revenue" :> Int2Num(50))) ELSE EmptyDict,
                   EmptyDict)

\* histories of up to MaxQuarters quarters in which at most one discloses no segment
PathHistories ==
    {[i \in 1 .. n |-> PathPrior(i # hole)] : n \in 0 .. MaxQuarters, hole \in 0 .. MaxQuarters}

PathTtmValues == {Absent, Zero, Int2Num(-1), Int2Num(5)}

PathCurrents ==
    {CompanyQuarter("ACME", "2024Q4", ("Revenue" :> Int2Num(100)),
                    GateTtm({"TotalDebt", "Cash"},
                            [key \in {"TotalDebt", "Cash"} |->
                                IF key = "TotalDebt" THEN debt ELSE cash]),
                    ("FCF" :> Int2Num(7)), ("Cloud" :> ("Revenue" :> Int2Num(60))),
                    ("ttm" :> GateTtm({"FCF", "EBIT"},
                                  [key \in {"FCF", "EBIT"} |->
                                      IF key = "FCF" THEN fcf ELSE ebit]))) :
        fcf \in PathTtmValues, ebit \in PathTtmValues,
        debt \in {Absent, Int2Num(5), Int2Num(20)},
        cash \in {Absent, Int2Num(15)}}

InitPath ==
    /\ pc = "path"
    /\ quarter \in PathCurrents
    /\ history \in PathHistories
    /\ args = None
    /\ dossier = None
    /\ store = None
    /\ out = None

DeterminePath ==
    /\ pc = "path"
    /\ out' = determine_path(quarter, history)
    /\ pc' = "path decided"
    /\ UNCHANGED <<quarter, history, dossier, store, args>>

NextPath == DeterminePath

SpecPath == InitPath /\ [][NextPath]_vars

NetDebt(q) ==
    NSub(GetOr(q.balance_sheet, "TotalDebt", Zero), GetOr(q.balance_sheet, "Cash", Zero))

\* net debt <= 0, or net debt / EBITDA <= 1 for a positive EBITDA (TTM EBIT)
LeverageHolds(q) ==
    \/ NLe(NetDebt(q), Zero)
    \/ /\ Positive(TtmOf(q.metadata), "EBIT")
       /\ NLe(NDiv(NetDebt(q), TtmOf(q.metadata)["EBIT"]), Int2Num(1))

\* at least 8 quarters, each of the last 8 disclosing a segment
SegmentsDisclosed(hist) ==
    /\ Len(hist) >= 8
    /\ \A i \in (Len(hist) - 7) .. Len(hist) : DOMAIN hist[i].segments # {}

\* the condition a reason is about
ReasonTopic(reason) ==
    CASE reason = "TTM FCF <= 0" -> "FCF"
      [] reason = "TTM EBIT <= 0" -> "EBIT"
      [] reason = "Net leverage >1x or net debt positive" -> "leverage"
      [] reason = "Segment disclosure < 8 quarters" -> "segments"

\* the conditions that fail for a quarter and its history
FailingConditions(q, hist) ==
    {topic \in {"FCF", "EBIT", "leverage", "segments"} :
        CASE topic = "FCF" -> ~Positive(TtmOf(q.metadata), "FCF")
          [] topic = "EBIT" -> ~Positive(TtmOf(q.metadata), "EBIT")
          [] topic = "leverage" -> ~LeverageHolds(q)
          [] OTHER -> ~SegmentsDisclosed(hist)}

\* one reason per failing condition and no other
ReasonsMatch(reasons, failing) ==
    /\ Len(reasons) = Cardinality(failing)
    /\ {ReasonTopic(reasons[i]) : i \in 1 .. Len(reasons)} = failing

\* C20: determine_path returns Mature with no reasons if and only if TTM FCF > 0,
\* TTM EBIT > 0, the leverage condition holds (net debt <= 0 or net debt / EBITDA
\* <= 1) and the history holds at least 8 quarters of which each of the last 8
\* discloses a segment; otherwise it returns Emergent with exactly one reason per
\* failing condition and none for a condition that holds, and a TTM FCF that is
\* absent or <= 0 always yields a reason mentioning FCF.
C20_PathAndReasons ==
    pc = "path decided" =>
        /\ out.path \in {"Mature", "Emergent"}
        /\ (out.path = "Mature" /\ out.reasons = <<>>)
               <=> FailingConditions(quarter, history) = {}
        /\ out.path = "Emergent" <=> FailingConditions(quarter, history) # {}
        /\ ReasonsMatch(out.reasons, FailingConditions(quarter, history))
        /\ ~Positive(TtmOf(quarter.metadata), "FCF")
               => \E i \in 1 .. Len(out.reasons) : ReasonTopic(out.reasons[i]) = "FCF"

\* the same with the leverage condition read as the code reads it: it holds only
\* for a positive TTM EBIT, whatever the net debt
C20_PathAndReasonsEbitFirst ==
    pc = "path decided" =>
        LET failing == (FailingConditions(quarter, history) \ {"leverage"})
                       \cup (IF Positive(TtmOf(quarter.metadata), "EBIT")
                                /\ LeverageHolds(quarter)
                             THEN {} ELSE {"leverage"})
        IN  /\ out.path = "Mature" <=> failing = {}
            /\ out.path = "Emergent" <=> failing # {}
            /\ ReasonsMatch(out.reasons, failing)

\* a decision for a quarter with net cash and positive TTM FCF but a TTM EBIT
\* that is not positive, carrying a leverage reason
C20_Witness ==
    /\ pc = "path decided"
    /\ Positive(TtmOf(quarter.metadata), "FCF")
    /\ ~Positive(TtmOf(quarter.metadata), "EBIT")
    /\ NLe(NetDebt(quarter), Zero)
    /\ SegmentsDisclosed(history)
    /\ \E i \in 1 .. Len(out.reasons) : ReasonTopic(out.reasons[i]) = "leverage"

\* ---------------------------------------------------------------------------
\* storage/json_store.py: a JSON file of key -> value, read and rewritten whole
\* ---------------------------------------------------------------------------

\* the file does not exist
NoFile == [k |-> "no file"]

\* _load: the file's dict, or {} when there is no file
JSONKeyValueStore_load(file) == IF file = NoFile THEN EmptyDict ELSE file

\* set(key, value): the file after load, data[key] = value, write
JSONKeyValueStore_set(file, key, value) == Put(JSONKeyValueStore_load(file), key, value)

\* get(key, default)
JSONKeyValueStore_get(file, key, default) == GetOr(JSONKeyValueStore_load(file), key, default)

\* str.upper() on the tickers in use
TickerUpper(ticker) ==
    CASE ticker = "acme" -> "ACME"
      [] ticker = "Acme" -> "ACME"
      [] ticker = "zeta" -> "ZETA"
      [] OTHER -> ticker

\* ---------------------------------------------------------------------------
\* delta/delta_engine.py: DeltaEngine
\* ---------------------------------------------------------------------------

\* KEY_METRICS, in order: name, section, key
KEY_METRICS ==
    << <<"Revenue", "income_stmt", "Revenue">>,
       <<"Gross Profit", "income_stmt", "GrossProfit">>,
       <<"EBIT", "income_stmt", "EBIT">>,
       <<"CFO", "cash_flow", "CFO">>,
       <<"FCF", "cash_flow", "FCF">> >>

\* the names of DERIVED_METRICS, in order
DERIVED_METRICS ==
    <<"Owner Earnings", "Net Debt", "Accruals Ratio", "Accounts Receivable", "Inventory",
      "Shares Diluted">>

\* getattr(quarter, section).get(key)
DeltaEngine_get(q, section, key) ==
    CASE section = "income_stmt" -> Get(q.income_stmt, key)
      [] section = "balance_sheet" -> Get(q.balance_sheet, key)
      [] section = "cash_flow" -> Get(q.cash_flow, key)

DeltaEngine_owner_earnings(q) ==
    Bind2(Get(q.cash_flow, "CFO"), Get(q.cash_flow, "CapEx"), LAMBDA cfo, capex :
        IF cfo = None THEN None
        ELSE IF capex = None THEN cfo
        ELSE NAdd(cfo, capex))

DeltaEngine_net_debt(q) ==
    Bind2(Get(q.balance_sheet, "TotalDebt"), Get(q.balance_sheet, "Cash"), LAMBDA debt, cash :
        IF debt = None /\ cash = None THEN None
        ELSE NSub(Or(debt, Zero), Or(cash, Zero)))

DeltaEngine_accruals_ratio(q) ==
    Bind3(Get(q.income_stmt, "NetIncome"), Get(q.cash_flow, "CFO"),
          Get(q.balance_sheet, "TotalAssets"), LAMBDA net_income, cfo, total_assets :
        IF net_income = None \/ cfo = None \/ total_assets \in {None, Zero} THEN None
        ELSE safe_div(NSub(net_income, cfo), total_assets))

DeltaEngine_shares_diluted(q) ==
    Bind2(Get(q.metadata, "valuation"), Get(q.metadata, "ttm"), LAMBDA valuation, ttm :
        IF IsDict(valuation) /\ Get(valuation, "shares_diluted") # None
        THEN valuation["shares_diluted"]
        ELSE IF IsDict(ttm) /\ Get(ttm, "SharesDiluted") # None
        THEN ttm["SharesDiluted"]
        ELSE None)

\* DERIVED_METRICS[name](quarter)
DeltaEngine_extract(name, q) ==
    CASE name = "Owner Earnings" -> DeltaEngine_owner_earnings(q)
      [] name = "Net Debt" -> DeltaEngine_net_debt(q)
      [] name = "Accruals Ratio" -> DeltaEngine_accruals_ratio(q)
      [] name = "Accounts Receivable" -> DeltaEngine_get(q, "balance_sheet", "AccountsReceivable")
      [] name = "Inventory" -> DeltaEngine_get(q, "balance_sheet", "Inventory")
      [] name = "Shares Diluted" -> DeltaEngine_shares_diluted(q)

build_record(name, current, prior, year_ago) ==
    IF current = None \/ prior = None \/ year_ago = None THEN None
    ELSE Bind2(NSub(current, prior), NSub(current, year_ago), LAMBDA qoq, yoy :
         Bind2(safe_div(qoq, IF prior # Zero THEN prior ELSE None),
               safe_div(yoy, IF year_ago # Zero THEN year_ago ELSE None),
               LAMBDA qoq_percent, yoy_percent :
             [current |-> current, qoq |-> qoq, yoy |-> yoy,
              qoq_percent |-> IF qoq_percent # None THEN qoq_percent ELSE Zero,
              yoy_percent |-> IF yoy_percent # None THEN yoy_percent ELSE Zero]))

\* the snapshot of each metric name, None where a period lacks the value
DeltaSnapshots(current, prior, year_ago) ==
    [name \in {KEY_METRICS[i][1] : i \in 1 .. Len(KEY_METRICS)}
              \cup {DERIVED_METRICS[i] : i \in 1 .. Len(DERIVED_METRICS)} |->
        IF \E i \in 1 .. Len(KEY_METRICS) : KEY_METRICS[i][1] = name
        THEN LET entry == KEY_METRICS[CHOOSE i \in 1 .. Len(KEY_METRICS) :
                                          KEY_METRICS[i][1] = name]
             IN  build_record(name, DeltaEngine_get(current, entry[2], entry[3]),
                              DeltaEngine_get(prior, entry[2], entry[3]),
                              DeltaEngine_get(year_ago, entry[2], entry[3]))
        ELSE build_record(name, DeltaEngine_extract(name, current),
                          DeltaEngine_extract(name, prior),
                          DeltaEngine_extract(name, year_ago))]

\* compute: the deltas returned; a snapshot is kept when it is truthy, which a
\* five-field dict always is
DeltaEngine_compute(current, prior, year_ago) ==
    Bind(DeltaSnapshots(current, prior, year_ago), LAMBDA snapshots :
        [name \in {n \in DOMAIN snapshots : snapshots[n] # None} |-> snapshots[name]])

\* delta/store.py: DeltaStore.save(ticker, deltas)
DeltaStore_save(file, ticker, deltas) ==
    JSONKeyValueStore_set(file, TickerUpper(ticker), deltas)

\* ---------------------------------------------------------------------------
\* DeltaEngine(store).compute(current, prior, year_ago), the store's file included
\* ---------------------------------------------------------------------------

\* a period of the delta engine: statements from a choice of values
DeltaPeriod(period, c) ==
    CompanyQuarter(c.ticker, period,
                   GateTtm({"Revenue", "NetIncome"},
                           [key \in {"Revenue", "NetIncome"} |->
                               IF key = "Revenue" THEN c.Revenue ELSE Int2Num(10)]),
                   GateTtm({"TotalDebt", "Cash", "TotalAssets"},
                           [key \in {"TotalDebt", "Cash", "TotalAssets"} |->
                               CASE key = "TotalDebt" -> c.TotalDebt
                                 [] key = "Cash" -> c.Cash
                                 [] OTHER -> c.TotalAssets]),
                   GateTtm({"CFO", "CapEx"},
                           [key \in {"CFO", "CapEx"} |->
                               IF key = "CFO" THEN c.CFO ELSE c.CapEx]),
                   EmptyDict,
                   ("valuation" :> ("shares_diluted" :> Int2Num(1000))))

DeltaDefault ==
    [ticker |-> "acme", Revenue |-> Int2Num(100), TotalDebt |-> Int2Num(20),
     Cash |-> Int2Num(5), TotalAssets |-> Int2Num(200), CFO |-> Int2Num(40),
     CapEx |-> Int2Num(-10)]

DeltaChoices ==
    {[DeltaDefault EXCEPT !.Revenue = r] :
        r \in {Absent, Zero, Int2Num(-50), Int2Num(80)}}
    \cup {[DeltaDefault EXCEPT !.CFO = cfo, !.CapEx = capex, !.TotalDebt = debt,
                               !.Cash = cash] :
        cfo \in {Absent, Int2Num(40)}, capex \in {Absent, Int2Num(-10)},
        debt \in {Absent, Int2Num(20)}, cash \in {Absent, Int2Num(5)}}
    \cup {[DeltaDefault EXCEPT !.TotalAssets = assets] : assets \in {Absent, Zero}}

\* the delta file before the call: missing, or holding another ticker's deltas
DeltaFiles == {NoFile, ("ZETA" :> EmptyDict)}

InitDelta ==
    /\ pc = "delta"
    /\ args \in {[current |-> DeltaPeriod("2024Q2", c), prior |-> DeltaPeriod("2024Q1", p),
                  year_ago |-> DeltaPeriod("2023Q2", y)] :
                    c \in DeltaChoices, p \in DeltaChoices, y \in DeltaChoices}
    /\ store \in DeltaFiles
    /\ quarter = None
    /\ history = None
    /\ dossier = None
    /\ out = None

ComputeDeltas ==
    /\ pc = "delta"
    /\ out' = DeltaEngine_compute(args.current, args.prior, args.year_ago)
    /\ store' = DeltaStore_save(store, TickerUpper(args.current.ticker), out')
    /\ pc' = "deltas computed"
    /\ UNCHANGED <<quarter, history, dossier, args>>

NextDelta == ComputeDeltas

SpecDelta == InitDelta /\ [][NextDelta]_vars

\* the statement values a delta metric is computed from: section, key
DeltaInputs(name) ==
    CASE name = "Revenue" -> {<<"income_stmt", "Revenue">>}
      [] name = "Gross Profit" -> {<<"income_stmt", "GrossProfit">>}
      [] name = "EBIT" -> {<<"income_stmt", "EBIT">>}
      [] name = "CFO" -> {<<"cash_flow", "CFO">>}
      [] name = "FCF" -> {<<"cash_flow", "FCF">>}
      [] name = "Owner Earnings" -> {<<"cash_flow", "CFO">>, <<"cash_flow", "CapEx">>}
      [] name = "Net Debt" -> {<<"balance_sheet", "TotalDebt">>, <<"balance_sheet", "Cash">>}
      [] name = "Accruals Ratio" -> {<<"income_stmt", "NetIncome">>, <<"cash_flow", "CFO">>,
                                     <<"balance_sheet", "TotalAssets">>}
      [] name = "Accounts Receivable" -> {<<"balance_sheet", "AccountsReceivable">>}
      [] name = "Inventory" -> {<<"balance_sheet", "Inventory">>}
      [] name = "Shares Diluted" -> {}

SuppliesInputs(q, name) ==
    \A input \in DeltaInputs(name) : DeltaEngine_get(q, input[1], input[2]) # None

DeltaPeriodsOf(a) == {a.current, a.prior, a.year_ago}

\* the value of a delta metric in one period
DeltaValue(name, q) ==
    IF \E i \in 1 .. Len(KEY_METRICS) : KEY_METRICS[i][1] = name
    THEN DeltaEngine_get(q, CHOOSE s \in {"income_stmt", "cash_flow"} :
                                \E i \in 1 .. Len(KEY_METRICS) :
                                    KEY_METRICS[i][1] = name /\ KEY_METRICS[i][2] = s,
                         CHOOSE key \in {"Revenue", "GrossProfit", "EBIT", "CFO", "FCF"} :
                                \E i \in 1 .. Len(KEY_METRICS) :
                                    KEY_METRICS[i][1] = name /\ KEY_METRICS[i][3] = key)
    ELSE DeltaEngine_extract(name, q)

\* C21: compute includes a metric only if each of the three periods supplies
\* every statement value the metric is computed from - no missing input counts
\* as zero, for Net Debt (TotalDebt - Cash) and Owner Earnings (CFO + CapEx) in
\* particular - and a metric without a value in some period is omitted.
C21_NoMetricFromMissingInput ==
    pc = "deltas computed" =>
        /\ \A name \in DOMAIN out :
               \A q \in DeltaPeriodsOf(args) : SuppliesInputs(q, name)
        /\ \A name \in {"Revenue", "CFO", "Owner Earnings", "Net Debt", "Accruals Ratio"} :
               (\E q \in DeltaPeriodsOf(args) : DeltaValue(name, q) = None)
                   => name \notin DOMAIN out

\* a metric is included exactly when the engine derives a value for it in each
\* of the three periods
C21_MetricIffValueInEveryPeriod ==
    pc = "deltas computed" =>
        \A name \in {"Revenue", "CFO", "Owner Earnings", "Net Debt", "Accruals Ratio",
                     "Shares Diluted", "Inventory"} :
            name \in DOMAIN out <=> \A q \in DeltaPeriodsOf(args) : DeltaValue(name, q) # None

\* deltas that include Owner Earnings although the prior period reports no CapEx
C21_Witness ==
    /\ pc = "deltas computed"
    /\ "CapEx" \notin DOMAIN args.prior.cash_flow
    /\ "Owner Earnings" \in DOMAIN out
    /\ out["Owner Earnings"].qoq = Int2Num(-10)

\* the percent change of a difference over the absolute value of its base
PercentOverAbsolute(change, base) ==
    IF base = Zero THEN Zero ELSE NDiv(change, NAbs(base))

\* C22: every included metric's record has exactly the fields current, qoq, yoy,
\* qoq_percent and yoy_percent, with qoq = current - prior, yoy = current -
\* year_ago, qoq_percent = qoq / |prior| and yoy_percent = yoy / |year_ago|, also
\* for a negative prior or year-ago value, and a percent change of 0.0 when its
\* denominator is exactly zero.
C22_DeltaRecord ==
    pc = "deltas computed" =>
        \A name \in DOMAIN out :
            /\ DOMAIN out[name] = {"current", "qoq", "yoy", "qoq_percent", "yoy_percent"}
            /\ out[name].current = DeltaValue(name, args.current)
            /\ out[name].qoq = NSub(DeltaValue(name, args.current),
                                    DeltaValue(name, args.prior))
            /\ out[name].yoy = NSub(DeltaValue(name, args.current),
                                    DeltaValue(name, args.year_ago))
            /\ out[name].qoq_percent
                   = PercentOverAbsolute(out[name].qoq, DeltaValue(name, args.prior))
            /\ out[name].yoy_percent
                   = PercentOverAbsolute(out[name].yoy, DeltaValue(name, args.year_ago))

\* the same with the percent changes over the signed prior and year-ago values
C22_DeltaRecordSigned ==
    pc = "deltas computed" =>
        \A name \in DOMAIN out :
            /\ DOMAIN out[name] = {"current", "qoq", "yoy", "qoq_percent", "yoy_percent"}
            /\ out[name].qoq = NSub(DeltaValue(name, args.current),
                                    DeltaValue(name, args.prior))
            /\ out[name].yoy = NSub(DeltaValue(name, args.current),
                                    DeltaValue(name, args.year_ago))
            /\ out[name].qoq_percent
                   = (IF DeltaValue(name, args.prior) = Zero THEN Zero
                      ELSE NDiv(out[name].qoq, DeltaValue(name, args.prior)))
            /\ out[name].yoy_percent
                   = (IF DeltaValue(name, args.year_ago) = Zero THEN Zero
                      ELSE NDiv(out[name].yoy, DeltaValue(name, args.year_ago)))

\* deltas of a Revenue that rose from -50 to 80 over the quarter: +130 on a base
\* of 50 in absolute value, reported as -2.6
C22_Witness ==
    /\ pc = "deltas computed"
    /\ Get(args.prior.income_stmt, "Revenue") = Int2Num(-50)
    /\ Get(args.current.income_stmt, "Revenue") = Int2Num(80)
    /\ "Revenue" \in DOMAIN out
    /\ out["Revenue"].qoq = Int2Num(130)
    /\ out["Revenue"].qoq_percent = Num(-26, 1, -1)

\* ---------------------------------------------------------------------------
\* provenance/cache.py: DocumentCache, with the loads it asks of the store.  A
\* cache is [text, document: the ids each lru_cache holds, loads: the ids asked
\* of the store, in order]; fewer ids are in use than an lru_cache holds.
\* ---------------------------------------------------------------------------

\* DocumentCache(store): nothing cached, nothing loaded
DocumentCache == [text |-> {}, document |-> {}, loads |-> <<>>, raised |-> FALSE]

\* fetch_text(doc_id): a hit, or a load that is cached unless it raises
fetch_text(cache, docs, doc_id) ==
    IF doc_id \in cache.text THEN [cache EXCEPT !.raised = FALSE]
    ELSE IF IsRaised(DocumentStore_load(docs, doc_id))
    THEN [cache EXCEPT !.loads = Append(@, doc_id), !.raised = TRUE]
    ELSE [cache EXCEPT !.loads = Append(@, doc_id), !.text = @ \cup {doc_id},
                       !.raised = FALSE]

\* fetch_document(doc_id): the same over its own lru_cache
fetch_document(cache, docs, doc_id) ==
    IF doc_id \in cache.document THEN [cache EXCEPT !.raised = FALSE]
    ELSE IF IsRaised(DocumentStore_load(docs, doc_id))
    THEN [cache EXCEPT !.loads = Append(@, doc_id), !.raised = TRUE]
    ELSE [cache EXCEPT !.loads = Append(@, doc_id), !.document = @ \cup {doc_id},
                       !.raised = FALSE]

\* the metric has every provenance field and a quote of at most 30 words
FieldsComplete(metric) ==
    /\ Truthy(metric.source_doc_id) /\ Truthy(metric.page_or_section)
    /\ Truthy(metric.quote) /\ WordCount(metric.quote.s) <= MaxQuoteWords
    /\ Truthy(metric.url)

\* the cache after _validate_metric(metric)
validate_metric_cache(metric, cache, docs) ==
    IF metric.source_doc_id = SYSTEM_DOC_ID \/ ~FieldsComplete(metric) THEN cache
    ELSE Bind(fetch_text(cache, docs, metric.source_doc_id.s), LAMBDA fetched :
             IF fetched.raised THEN fetched
             ELSE fetch_document(fetched, docs, metric.source_doc_id.s))

\* the cache after validate_metrics(metrics)
RECURSIVE validate_metrics_cache(_, _, _)
validate_metrics_cache(metrics, cache, docs) ==
    IF docs = None \/ metrics = <<>> THEN cache
    ELSE validate_metrics_cache(Tail(metrics),
                                validate_metric_cache(Head(metrics), cache, docs), docs)

MaxCited == 3

MaxPasses == 2

\* a metric that cites a document
CitingMetric(name, doc_id, quote) ==
    [GateMetric(name, Int2Num(1)) EXCEPT !.source_doc_id = doc_id, !.quote = Str(quote)]

\* a system-derived metric, metrics citing a stored filing, a stored market
\* document and a document that is not in the store, and one without a quote
CitedMetrics ==
    {CitingMetric("FCF", SYSTEM_DOC_ID, "derived"),
     CitingMetric("Revenue", Str("ACME-1"), "Revenue was 100"),
     CitingMetric("ROIC", Str("ACME-2"), "ROIC was 12%"),
     CitingMetric("EBIT", Str("ACME-9"), "EBIT was 20"),
     CitingMetric("DSO", Str("ACME-1"), "")}

CitedStores ==
    {None,
     ("ACME-1" :> [doc_type |-> "10-K", quotes |-> {"Revenue was 100"}, normalized |-> {}])
     @@ ("ACME-2" :> [doc_type |-> "Market", quotes |-> {}, normalized |-> {}])}

InitCache ==
    /\ pc = "validator"
    /\ args \in UNION {[1 .. n -> CitedMetrics] : n \in 0 .. MaxCited}
    /\ store \in CitedStores
    /\ quarter = None
    /\ history = None
    /\ dossier = None
    /\ out = [issues |-> <<>>, cache |-> DocumentCache, passes |-> 0]

\* one validate_metrics pass of the validator; its cache outlives the pass
ValidateMetrics ==
    /\ out.passes < MaxPasses
    /\ out' = [issues |-> validate_metrics(args, store),
               cache |-> validate_metrics_cache(args, [out.cache EXCEPT !.loads = <<>>],
                                                store),
               passes |-> out.passes + 1]
    /\ pc' = "validated"
    /\ UNCHANGED <<quarter, history, dossier, store, args>>

NextCache == ValidateMetrics

SpecCache == InitCache /\ [][NextCache]_vars

\* how often the pass asked the store for the document
LoadsOf(loads, doc_id) == Cardinality({i \in 1 .. Len(loads) : loads[i] = doc_id})

\* C23: during one validate_metrics pass the document store is asked to load each
\* distinct source_doc_id at most once, however many metrics cite it and also
\* when its load fails; SYSTEM-DERIVED metrics cause no load.
C23_OneLoadPerDocument ==
    pc = "validated" =>
        /\ \A doc_id \in {"ACME-1", "ACME-2", "ACME-9"} : LoadsOf(out.cache.loads, doc_id) <= 1
        /\ LoadsOf(out.cache.loads, SYSTEM_DOC_ID.s) = 0

\* a pass loads a document that loads at most twice, once for its text and once
\* for its metadata; a document whose load fails is loaded once for each metric
\* that cites it with complete fields; SYSTEM-DERIVED metrics cause no load
C23_TwoLoadsOrOnePerCitation ==
    pc = "validated" =>
        /\ \A doc_id \in {"ACME-1", "ACME-2"} : LoadsOf(out.cache.loads, doc_id) <= 2
        /\ store # None =>
               LoadsOf(out.cache.loads, "ACME-9")
                   = Cardinality({i \in 1 .. Len(args) :
                                     args[i].source_doc_id = Str("ACME-9")})
        /\ LoadsOf(out.cache.loads, SYSTEM_DOC_ID.s) = 0

\* a first pass over one metric that cites a stored filing, which was loaded twice
C23_Witness ==
    /\ pc = "validated"
    /\ out.passes = 1
    /\ Len(args) = 1
    /\ args[1].source_doc_id = Str("ACME-1")
    /\ out.issues = <<>>
    /\ out.cache.loads = <<"ACME-1", "ACME-1">>

\* ---------------------------------------------------------------------------
\* ingest/store.py: DocumentStore over its files.  The files of a store are a
\* dict <<directory, file name stem>> -> [json, bin], each the file's content or
\* NoFile; the directory is the document's ticker.
\* ---------------------------------------------------------------------------

\* document.model_dump_json(): the fields as JSON values, None as null
model_dump_json(document) ==
    [field \in DOMAIN document |->
        IF document[field] = None THEN "null" ELSE document[field].s]

\* Document.model_validate_json(text): the document, or the error for a
\* doc_type outside the allowed literals
model_validate_json(text) ==
    IF text.doc_type \notin DocumentTypes THEN Raised("ValidationError")
    ELSE [field \in DOMAIN text |->
             IF field = "pdf_pages" /\ text[field] = "null" THEN None ELSE Str(text[field])]

\* document_id.split("-", 1)[0] for the ids in use
IdPrefix(document_id) ==
    CASE document_id = "AAPL-1" -> "AAPL"
      [] document_id = "BRK-B-1" -> "BRK"
      [] OTHER -> document_id

FileAt(files, dir, stem) ==
    IF <<dir, stem>> \in DOMAIN files THEN files[<<dir, stem>>]
    ELSE [json |-> NoFile, bin |-> NoFile]

\* save(document, content): each file is written only if it does not exist
DocumentStore_save(files, document, content) ==
    Bind(FileAt(files, document.ticker.s, document.id.s), LAMBDA at :
        (<<document.ticker.s, document.id.s>> :>
            [json |-> IF at.json = NoFile THEN model_dump_json(document) ELSE at.json,
             bin |-> IF at.bin = NoFile THEN content ELSE at.bin]) @@ files)

\* load(document_id): [document, content], or the exception raised
DocumentStore_load_files(files, document_id) ==
    Bind(FileAt(files, IdPrefix(document_id), document_id), LAMBDA at :
        IF at.json = NoFile \/ at.bin = NoFile THEN Raised("FileNotFoundError")
        ELSE Bind(model_validate_json(at.json), LAMBDA document :
                 IF IsRaised(document) THEN document
                 ELSE [k |-> "loaded", document |-> document, content |-> at.bin]))

\* list_documents(): the documents of every */*.json, as a bag since glob's
\* order is the file system's
list_documents(files) ==
    Bind({path \in DOMAIN files : files[path].json # NoFile}, LAMBDA paths :
        [document \in {model_validate_json(files[path].json) : path \in paths} |->
            Cardinality({path \in paths :
                            model_validate_json(files[path].json) = document})])

MaxSaves == 2

StoreTickers == {"AAPL", "BRK-B"}

StoreIds == {"AAPL-1", "BRK-B-1", "abcdef"}

StoreDocuments ==
    {[id |-> Str(id), ticker |-> Str(ticker), doc_type |-> Str("10-K"), title |-> Str(title),
      date |-> Str("2024-02-01"), url |-> Str("https://example.com/10k.pdf"),
      pit_hash |-> Str("abcdef"), pdf_pages |-> None] :
        id \in StoreIds, ticker \in StoreTickers, title \in {"Form 10-K", "Form 10-K/A"}}

StoreContents == {Str("filing body"), Str("amended body")}

InitStore ==
    /\ pc = "store"
    /\ store = [path \in {} |-> [json |-> NoFile, bin |-> NoFile]]
    /\ args = [saves |-> 0]
    /\ quarter = None
    /\ history = None
    /\ dossier = None
    /\ out = None

Save ==
    /\ args.saves < MaxSaves
    /\ \E document \in StoreDocuments, content \in StoreContents :
           /\ store' = DocumentStore_save(store, document, content)
           /\ args' = [saves |-> args.saves + 1, document |-> document, content |-> content]
           /\ out' = document
    /\ pc' = "saved"
    /\ UNCHANGED <<quarter, history, dossier>>

Load ==
    /\ \E document_id \in StoreIds :
           /\ args' = [saves |-> args.saves, document_id |-> document_id]
           /\ out' = DocumentStore_load_files(store, document_id)
    /\ pc' = "loaded"
    /\ UNCHANGED <<quarter, history, dossier, store>>

ListDocuments ==
    /\ args' = [saves |-> args.saves]
    /\ out' = list_documents(store)
    /\ pc' = "listed"
    /\ UNCHANGED <<quarter, history, dossier, store>>

NextStore == Save \/ Load \/ ListDocuments

SpecStore == InitStore /\ [][NextStore]_vars

\* the store holds a document saved under the id
Holds(files, document_id) ==
    \E path \in DOMAIN files : path[2] = document_id /\ files[path].json # NoFile

\* how often list_documents lists the id
Listed(files, document_id) ==
    Bind(list_documents(files), LAMBDA listing :
        LET counts == [document \in DOMAIN listing |->
                          IF document.id = Str(document_id) THEN listing[document] ELSE 0]
            RECURSIVE Sum(_)
            Sum(docs) == IF docs = {} THEN 0
                         ELSE LET d == CHOOSE d \in docs : TRUE
                              IN  counts[d] + Sum(docs \ {d})
        IN  Sum(DOMAIN listing))

\* C24: once save(d, c) has completed, any later save under the same document id,
\* with the same or different metadata or content, is a no-op: the stored files
\* are unchanged, load(d.id) keeps returning what it returned, and
\* list_documents lists the id exactly once.
C24_SaveExistingIsNoOp ==
    [][(pc' = "saved" /\ Holds(store, args'.document.id.s)) =>
           /\ store' = store
           /\ DocumentStore_load_files(store', args'.document.id.s)
                  = DocumentStore_load_files(store, args'.document.id.s)
           /\ Listed(store', args'.document.id.s) = 1]_vars

\* a later save of the same id under the same ticker is a no-op
C24_SaveExistingSameTickerIsNoOp ==
    [][(/\ pc' = "saved"
        /\ <<args'.document.ticker.s, args'.document.id.s>> \in DOMAIN store) =>
           store' = store]_vars

\* a store in which one id is held under two tickers, so that it is listed twice
C24_Witness ==
    /\ pc = "saved"
    /\ Listed(store, "AAPL-1") = 2

\* C25: for every document d (any ticker, any id format) and content c, after
\* save(d, c) on a store that did not hold d.id, load(d.id) returns exactly
\* (d, c); load of an id that was never saved fails with the not-found error and
\* changes nothing.
C25_SaveThenLoad ==
    [][/\ (pc' = "saved" /\ ~Holds(store, args'.document.id.s)) =>
              DocumentStore_load_files(store', args'.document.id.s)
                  = [k |-> "loaded", document |-> args'.document, content |-> args'.content]
       /\ (pc' = "loaded" /\ ~Holds(store, args'.document_id)) =>
              (out' = Raised("FileNotFoundError") /\ store' = store)]_vars

\* the same for documents whose id starts with their ticker followed by a hyphen,
\* the ticker itself holding no hyphen
C25_SaveThenLoadPrefixedId ==
    [][/\ (/\ pc' = "saved" /\ ~Holds(store, args'.document.id.s)
           /\ IdPrefix(args'.document.id.s) = args'.document.ticker.s) =>
              DocumentStore_load_files(store', args'.document.id.s)
                  = [k |-> "loaded", document |-> args'.document, content |-> args'.content]
       /\ (pc' = "loaded" /\ ~Holds(store, args'.document_id)) =>
              (out' = Raised("FileNotFoundError") /\ store' = store)]_vars

\* a load that fails for a document saved under a ticker with a hyphen
C25_Witness ==
    /\ pc = "loaded"
    /\ args.document_id = "BRK-B-1"
    /\ <<"BRK-B", "BRK-B-1">> \in DOMAIN store
    /\ out = Raised("FileNotFoundError")

\* ---------------------------------------------------------------------------
\* VerifierAgent.verify on dossiers that declare their metrics as provenance
\* entries with a doc_type, and list their hard gates as plain rows
\* ---------------------------------------------------------------------------

\* a provenance entry of a dossier for a recomputed metric, declared as recomputed
ProvenanceEntry(metric, doc_type) ==
    [metric |-> Str(metric.name), value |-> metric.value, document_id |-> Str("DOC-1"),
     doc_type |-> Str(doc_type), url |-> Str("https://example.com")]

\* the dossier that declares the chosen ones of the sampled metrics and lists
\* the five hard gates as Pass
RuleDossier(sampled, chosen, doc_type) ==
    ("provenance" :>
        List(Bind(SelectSeq([i \in 1 .. Len(sampled) |-> i], LAMBDA i : i \in chosen),
                  LAMBDA kept :
                      [i \in 1 .. Len(kept) |-> ProvenanceEntry(sampled[kept[i]], doc_type)])))
    @@ ("stage_0" :>
        List([i \in 1 .. Len(CanonicalGateOrder) |->
                [gate |-> Str(CanonicalGateOrder[i]), result |-> Str("Pass")]]))

RuleQuarters ==
    {[quarter |-> PerturbedQuarter(HealthyPeriod, md), history |-> h] :
        md \in {EmptyDict, ("valuation" :> CompleteValuation)}, h \in {<<>>, FullHistory}}

InitRules ==
    /\ pc = "rules"
    /\ \E case \in RuleQuarters :
        /\ quarter = case.quarter
        /\ history = case.history
        /\ dossier \in {RuleDossier(Sample(calculate(case.quarter, case.history).metrics),
                                    chosen, doc_type) :
                           chosen \in SUBSET (1 .. sample_size),
                           doc_type \in {"10-K", "Blog"}}
    /\ store \in {None, EmptyDict}
    /\ args = None
    /\ out = None

VerifyRules ==
    /\ pc = "rules"
    /\ out' \in VerifyResults(quarter, dossier, history, store)
    /\ pc' = "rules verified"
    /\ UNCHANGED <<quarter, history, dossier, store, args>>

NextRules == VerifyRules

SpecRules == InitRules /\ [][NextRules]_vars

\* the doc types the verifier names as primary sources
VERIFIER_ALLOWED_DOC_TYPES ==
    {"10-K", "20-F", "10-Q", "6-K", "8-K", "Proxy", "IR-Deck", "Transcript"}

DeclaredEntries == dossier["provenance"].v

\* every entry cites a primary source
CitesPrimary ==
    \A i \in 1 .. Len(DeclaredEntries) :
        DeclaredEntries[i].doc_type.s \in VERIFIER_ALLOWED_DOC_TYPES

\* the dossier declares some, but not all, of the sampled metrics
DeclaresOnlySome ==
    /\ Len(DeclaredEntries) > 0
    /\ Len(DeclaredEntries) < Len(Sample(calculate(quarter, history).metrics))

(* C26: a dossier that declares only some of the recomputed metrics, each    *)
(* with the recomputed value, and lists all five hard gates as Pass is       *)
(* verified as PASS: a sampled metric the dossier does not declare is not a  *)
(* blocker by itself.                                                        *)
C26_PartialDossierPasses ==
    (pc = "rules verified" /\ DeclaresOnlySome /\ CitesPrimary) =>
        (~IsRaised(out) /\ out.status = "PASS")

\* a dossier that declares every sampled metric with the recomputed value and
\* lists the five hard gates as Pass is verified as PASS, whatever the doc_type
\* of its entries
C26_CompleteDossierPasses ==
    (/\ pc = "rules verified"
     /\ Len(DeclaredEntries) = Len(Sample(calculate(quarter, history).metrics))) =>
        (~IsRaised(out) /\ out.status = "PASS" /\ out.reasons = <<>>)

\* a dossier that declares one metric only, from a 10-K, and is blocked over the
\* sampled metrics it does not declare
C26_Witness ==
    /\ pc = "rules verified"
    /\ Len(DeclaredEntries) = 1
    /\ CitesPrimary
    /\ out.status = "BLOCKER"
    /\ \A i \in 1 .. Len(out.reasons) : out.reasons[i].text = "Metric missing from dossier"

(* C27: when a provenance entry of the dossier cites a source whose doc_type  *)
(* is not a primary-source type (Blog, say), verify returns BLOCKER and its   *)
(* first reason says that the source is non-primary, also for a verifier      *)
(* built without a document store.                                           *)
C27_NonPrimarySourceBlocks ==
    (pc = "rules verified" /\ Len(DeclaredEntries) > 0 /\ ~CitesPrimary) =>
        /\ ~IsRaised(out)
        /\ out.status = "BLOCKER"
        /\ out.reasons[1].text = "non-primary doc type"

\* no result of verify on these dossiers carries a reason about a non-primary
\* source
C27_DossierDocTypeNotRead ==
    pc = "rules verified" =>
        \A i \in 1 .. Len(out.reasons) : out.reasons[i].text # "non-primary doc type"

\* a dossier whose entries all cite a Blog, verified as PASS
C27_Witness ==
    /\ pc = "rules verified"
    /\ Len(DeclaredEntries) > 0
    /\ \A i \in 1 .. Len(DeclaredEntries) : DeclaredEntries[i].doc_type = Str("Blog")
    /\ store = None
    /\ out.status = "PASS"

\* ---------------------------------------------------------------------------
\* The gates of a period under the path derived from it: calculate, determine_path
\* and StageZeroBuilder.build as AnalystAgent.analyze chains them
\* ---------------------------------------------------------------------------

\* the path decision and the gate rows of a period, or the exception raised
derive_gates(q, hist) ==
    Bind(calculate(q, hist), LAMBDA calc_result :
        IF IsRaised(calc_result) THEN calc_result
        ELSE Bind(determine_path(calc_result.quarter, calc_result.history),
                  LAMBDA path_decision :
                 [k |-> "gates", path_decision |-> path_decision,
                  stage0_rows |-> StageZeroBuilder_build(DefaultBuilder, Today,
                                      calc_result.metrics, calc_result.quarter.metadata,
                                      path_decision.path)]))

\* the base period, each statement field missing or zero in turn, and periods
\* whose net income runs far ahead of or behind cash flow
FinalPeriods ==
    {p \in Perturbations(1) : \A f \in DOMAIN p : p[f] # Tiny}
        \cup {("NetIncome" :> Int2Num(60)), ("NetIncome" :> Int2Num(-40))}

FinalHistories == {<<>>, FullHistory, [i \in 1 .. MaxHistory |-> PathPrior(i # 2)]}

InitFinal ==
    /\ pc = "final"
    /\ quarter \in {PerturbedQuarter(HealthyPeriod @@ p, md) :
                        p \in FinalPeriods,
                        md \in {EmptyDict, ("valuation" :> CompleteValuation)}}
    /\ history \in FinalHistories
    /\ dossier = None
    /\ store = None
    /\ args = None
    /\ out = None

DeriveGates ==
    /\ pc = "final"
    /\ out' = derive_gates(quarter, history)
    /\ pc' = "gates derived"
    /\ UNCHANGED <<quarter, history, dossier, store, args>>

NextFinal == DeriveGates

SpecFinal == InitFinal /\ [][NextFinal]_vars

(* C28: in every result of build where the path passed in is the one          *)
(* determine_path derived from the same normalized period, a Final Decision   *)
(* Gate row with result Pass implies that Circle of Competence,               *)
(* Fraud/Controls, Imminent Solvency and Valuation are Pass as well, as the   *)
(* row's pass rule 'Path = Mature and prior hard gates pass' states.          *)
C28_FinalGateImpliesPriorGates ==
    (pc = "gates derived" /\ ~IsRaised(out)) =>
        (RowPasses(out.stage0_rows.hard, "Final Decision Gate") =>
            \A gate \in {"Circle of Competence", "Fraud/Controls", "Imminent Solvency",
                         "Valuation"} : RowPasses(out.stage0_rows.hard, gate))

\* the Final Decision Gate passes exactly when the derived path is Mature, and
\* then the Imminent Solvency gate passes too
C28_FinalGateFollowsPath ==
    (pc = "gates derived" /\ ~IsRaised(out)) =>
        /\ RowPasses(out.stage0_rows.hard, "Final Decision Gate")
               <=> out.path_decision.path = "Mature"
        /\ RowPasses(out.stage0_rows.hard, "Final Decision Gate")
               => RowPasses(out.stage0_rows.hard, "Imminent Solvency")

\* a Mature period without valuation inputs: the Final Decision Gate passes
\* although the Valuation gate fails
C28_Witness ==
    /\ pc = "gates derived"
    /\ ~IsRaised(out)
    /\ out.path_decision.path = "Mature"
    /\ RowPasses(out.stage0_rows.hard, "Final Decision Gate")
    /\ Failed(out.stage0_rows.hard, "Valuation")

\* ---------------------------------------------------------------------------
\* Two pipeline invocations writing through one JSONKeyValueStore file.  Each
\* set or delete is load, modify, write, and write_text opens the file for
\* writing, which empties it, before it writes the text; nothing locks the file.
\* pc and out map each invocation to its position and to the dict it holds.
\* ---------------------------------------------------------------------------

Invocations == {"first", "second"}

\* the file opened for writing and not yet written
EmptyText == [k |-> "empty text"]

\* the file before the two invocations: missing, or holding other tickers
SharedFiles ==
    {NoFile,
     ("OMEGA" :> Str("omega deltas")),
     ("OMEGA" :> Str("omega deltas")) @@ ("ZETA" :> Str("old zeta deltas"))}

\* what the second invocation does with its key
SecondOperations == {"set", "delete"}

InitShared ==
    /\ pc = [i \in Invocations |-> "start"]
    /\ store \in SharedFiles
    /\ \E operation \in SecondOperations :
           args = [file |-> store,
                   first |-> [operation |-> "set", key |-> TickerUpper("acme"),
                              value |-> Str("acme deltas")],
                   second |-> [operation |-> operation, key |-> TickerUpper("zeta"),
                               value |-> Str("zeta deltas")]]
    /\ out = [i \in Invocations |-> None]
    /\ quarter = None
    /\ history = None
    /\ dossier = None

\* data = self._load(): the dict of the file; json.loads of an empty file raises
LoadFile(i) ==
    /\ pc[i] = "start"
    /\ IF store = EmptyText
       THEN /\ pc' = [pc EXCEPT ![i] = "raised"]
            /\ out' = [out EXCEPT ![i] = Raised("JSONDecodeError")]
       ELSE /\ pc' = [pc EXCEPT ![i] = "loaded"]
            /\ out' = [out EXCEPT ![i] = JSONKeyValueStore_load(store)]
    /\ UNCHANGED <<quarter, history, dossier, store, args>>

\* data[key] = value, or del data[key], and the start of _write: the file is
\* opened and emptied; a delete of a key that is not there writes nothing
OpenForWrite(i) ==
    /\ pc[i] = "loaded"
    /\ IF args[i].operation = "set"
       THEN /\ out' = [out EXCEPT ![i] = Put(out[i], args[i].key, args[i].value)]
            /\ store' = EmptyText
            /\ pc' = [pc EXCEPT ![i] = "writing"]
       ELSE IF args[i].key \in DOMAIN out[i]
       THEN /\ out' = [out EXCEPT ![i] = DelKey(out[i], args[i].key)]
            /\ store' = EmptyText
            /\ pc' = [pc EXCEPT ![i] = "writing"]
       ELSE /\ pc' = [pc EXCEPT ![i] = "done"]
            /\ UNCHANGED <<store, out>>
    /\ UNCHANGED <<quarter, history, dossier, args>>

\* the end of _write: the text of the invocation's dict is in the file
WriteFile(i) ==
    /\ pc[i] = "writing"
    /\ store' = out[i]
    /\ pc' = [pc EXCEPT ![i] = "done"]
    /\ UNCHANGED <<quarter, history, dossier, args, out>>

NextShared == \E i \in Invocations : LoadFile(i) \/ OpenForWrite(i) \/ WriteFile(i)

SpecShared == InitShared /\ [][NextShared]_vars

\* both invocations have completed their call
BothCompleted == \A i \in Invocations : pc[i] = "done"

\* the file holds what the invocation's call leaves under its key
Persisted(i) ==
    IF args[i].operation = "set"
    THEN IsDict(store) /\ Get(store, args[i].key) = args[i].value
    ELSE IsDict(store) /\ args[i].key \notin DOMAIN store

(* C29: when two pipeline invocations for different tickers persist through  *)
(* the same JSONKeyValueStore file concurrently, both entries are present     *)
(* once both calls have completed - no interleaving of the two                *)
(* load-modify-write sequences loses an update - and a set or delete of one   *)
(* key never changes the value stored under another key.                      *)
C29_NoLostUpdate ==
    BothCompleted =>
        /\ \A i \in Invocations : Persisted(i)
        /\ \A key \in DOMAIN JSONKeyValueStore_load(args.file) :
               (\A i \in Invocations : args[i].key # key) =>
                   Get(store, key) = JSONKeyValueStore_load(args.file)[key]

\* once both calls have completed, the file holds the dict of one of them, with
\* that invocation's own update in it
C29_SomeUpdateKept ==
    BothCompleted =>
        \E i \in Invocations : store = out[i] /\ Persisted(i)

\* both sets have completed and the entry of the first invocation is not in the
\* file
C29_Witness ==
    /\ BothCompleted
    /\ args["second"].operation = "set"
    /\ IsDict(store)
    /\ "ACME" \notin DOMAIN store
    /\ Get(store, "ZETA") = Str("zeta deltas")

\* ---------------------------------------------------------------------------
\* triggers/store.py and triggers/monitor.py.  The triggers of a monitor are the
\* list of its Trigger records in the order of their (ticker, name) keys; the
\* store's file maps an upper-case ticker to the list of serialized triggers.
\* ---------------------------------------------------------------------------

\* date.isoformat() and date.fromisoformat(), a date being the number of its day
isoformat(day) == [k |-> "iso date", day |-> day]

fromisoformat(text) == text.day

Trigger(ticker, name, threshold, comparison, deadline) ==
    [ticker |-> ticker, name |-> name, threshold |-> threshold, comparison |-> comparison,
     deadline |-> deadline]

\* TriggerStore.upsert(ticker, triggers)
TriggerStore_upsert(file, ticker, triggers) ==
    JSONKeyValueStore_set(file, TickerUpper(ticker), triggers)

\* TriggerStore.list(ticker)
TriggerStore_list(file, ticker) == JSONKeyValueStore_get(file, TickerUpper(ticker), <<>>)

\* self._triggers[(ticker, name)] = trigger: in place for a key that is there
SetTrigger(triggers, trigger) ==
    IF \E i \in 1 .. Len(triggers) :
           triggers[i].ticker = trigger.ticker /\ triggers[i].name = trigger.name
    THEN [i \in 1 .. Len(triggers) |->
             IF triggers[i].ticker = trigger.ticker /\ triggers[i].name = trigger.name
             THEN trigger ELSE triggers[i]]
    ELSE Append(triggers, trigger)

\* the monitor's triggers of the ticker, as written by upsert
SerializedWithCreation(triggers, ticker, today) ==
    Bind(SelectSeq(triggers, LAMBDA trig : trig.ticker = ticker), LAMBDA own :
        [i \in 1 .. Len(own) |->
            [name |-> own[i].name, threshold |-> own[i].threshold,
             comparison |-> own[i].comparison, deadline |-> isoformat(own[i].deadline),
             created_at |-> isoformat(today)]])

\* the monitor's triggers of the ticker, as written by remove
Serialized(triggers, ticker) ==
    Bind(SelectSeq(triggers, LAMBDA trig : trig.ticker = ticker), LAMBDA own :
        [i \in 1 .. Len(own) |->
            [name |-> own[i].name, threshold |-> own[i].threshold,
             comparison |-> own[i].comparison, deadline |-> isoformat(own[i].deadline)]])

\* upsert: the monitor's triggers and the file afterwards
TriggerMonitor_upsert(triggers, file, ticker, name, threshold, comparison, deadline, today) ==
    Bind(SetTrigger(triggers, Trigger(ticker, name, threshold, comparison, deadline)),
         LAMBDA updated :
        [triggers |-> updated,
         file |-> TriggerStore_upsert(file, ticker,
                                      SerializedWithCreation(updated, ticker, today))])

\* remove: the monitor's triggers and the file afterwards
TriggerMonitor_remove(triggers, file, ticker, name) ==
    Bind(SelectSeq(triggers, LAMBDA trig : ~(trig.ticker = ticker /\ trig.name = name)),
         LAMBDA updated :
        [triggers |-> updated,
         file |-> TriggerStore_upsert(file, ticker, Serialized(updated, ticker))])

\* _load_from_store(ticker): the monitor's triggers with the stored ones set
RECURSIVE load_from_store(_, _, _)
load_from_store(triggers, stored, ticker) ==
    IF stored = <<>> THEN triggers
    ELSE load_from_store(
             IF Head(stored).threshold = None THEN triggers
             ELSE SetTrigger(triggers,
                             Trigger(ticker, Head(stored).name, Head(stored).threshold,
                                     Or(Str(Head(stored).comparison), Str("gte")).s,
                                     fromisoformat(Head(stored).deadline))),
             Tail(stored), ticker)

\* sorted(items, key=deadline): a stable insertion sort
RECURSIVE SortedByDeadline(_)
SortedByDeadline(items) ==
    IF items = <<>> THEN <<>>
    ELSE Bind(SortedByDeadline(SubSeq(items, 1, Len(items) - 1)), LAMBDA sorted :
         Bind(items[Len(items)], LAMBDA last :
             SelectSeq(sorted, LAMBDA item : item.deadline.day <= last.deadline.day)
             \o <<last>>
             \o SelectSeq(sorted, LAMBDA item : item.deadline.day > last.deadline.day)))

\* list_triggers(ticker): the monitor's triggers afterwards and the list returned
TriggerMonitor_list_triggers(triggers, file, ticker) ==
    Bind(IF \E i \in 1 .. Len(triggers) : triggers[i].ticker = ticker THEN triggers
         ELSE load_from_store(triggers, TriggerStore_list(file, ticker), ticker),
         LAMBDA loaded :
        Bind(SelectSeq(loaded, LAMBDA trig : trig.ticker = ticker), LAMBDA own :
            [triggers |-> loaded,
             result |-> SortedByDeadline(
                 [i \in 1 .. Len(own) |->
                     [trigger |-> own[i].name, threshold |-> own[i].threshold,
                      comparison |-> own[i].comparison,
                      deadline |-> isoformat(own[i].deadline)]])]))

MaxOps == 3

TriggerTickers == {"acme", "ACME"}

TriggerNames == {"FCF margin", "Net leverage"}

TriggerDeadlines == {Today + 30, Today + 60}

\* out is the monitor at work: its triggers and what its last call returned;
\* args is the list of the calls made so far
InitTriggers ==
    /\ pc = "monitor"
    /\ store = NoFile
    /\ out = [triggers |-> <<>>, result |-> None]
    /\ args = <<>>
    /\ quarter = None
    /\ history = None
    /\ dossier = None

Upsert ==
    /\ Len(args) < MaxOps
    /\ \E ticker \in TriggerTickers, name \in TriggerNames, deadline \in TriggerDeadlines :
           Bind(TriggerMonitor_upsert(out.triggers, store, ticker, name, Int2Num(10), "gte",
                                      deadline, Today),
                LAMBDA after :
                   /\ out' = [triggers |-> after.triggers, result |-> None]
                   /\ store' = after.file
                   /\ args' = Append(args, [call |-> "upsert", ticker |-> ticker,
                                            name |-> name]))
    /\ pc' = "upserted"
    /\ UNCHANGED <<quarter, history, dossier>>

RemoveTrigger ==
    /\ Len(args) < MaxOps
    /\ \E ticker \in TriggerTickers, name \in TriggerNames :
           Bind(TriggerMonitor_remove(out.triggers, store, ticker, name), LAMBDA after :
                   /\ out' = [triggers |-> after.triggers, result |-> None]
                   /\ store' = after.file
                   /\ args' = Append(args, [call |-> "remove", ticker |-> ticker,
                                            name |-> name]))
    /\ pc' = "removed"
    /\ UNCHANGED <<quarter, history, dossier>>

ListTriggers ==
    /\ Len(args) < MaxOps
    /\ \E ticker \in TriggerTickers :
           /\ out' = TriggerMonitor_list_triggers(out.triggers, store, ticker)
           /\ args' = Append(args, [call |-> "list_triggers", ticker |-> ticker,
                                    name |-> ""])
    /\ pc' = "listed"
    /\ UNCHANGED <<quarter, history, dossier, store>>

\* TriggerMonitor(store): a new monitor over the same store
NewMonitor ==
    /\ Len(args) < MaxOps
    /\ out' = [triggers |-> <<>>, result |-> None]
    /\ args' = Append(args, [call |-> "TriggerMonitor", ticker |-> "", name |-> ""])
    /\ pc' = "monitor"
    /\ UNCHANGED <<quarter, history, dossier, store>>

NextTriggers == Upsert \/ RemoveTrigger \/ ListTriggers \/ NewMonitor

SpecTriggers == InitTriggers /\ [][NextTriggers]_vars

\* the names of the triggers the store holds for the ticker
PersistedNames(file, ticker) ==
    {TriggerStore_list(file, ticker)[i].name :
        i \in 1 .. Len(TriggerStore_list(file, ticker))}

\* the names list_triggers(ticker) returns
ListedNames(triggers, file, ticker) ==
    Bind(TriggerMonitor_list_triggers(triggers, file, ticker).result, LAMBDA listed :
        {listed[i].trigger : i \in 1 .. Len(listed)})

LastCall == args[Len(args)]

(* C30: every trigger persisted in the TriggerStore for a ticker stays         *)
(* persisted and listed after any later upsert of a differently named trigger  *)
(* for that ticker, also when the upsert goes through a newly created          *)
(* TriggerMonitor sharing the store or writes the ticker in another letter     *)
(* case; only remove of that trigger's name deletes it.                        *)
C30_TriggersPersist ==
    [][\A name \in PersistedNames(store, "ACME") :
           /\ name \notin PersistedNames(store', "ACME") =>
                  (LastCall'.call = "remove" /\ LastCall'.name = name)
           /\ (LastCall'.call = "upsert" /\ LastCall'.name # name) =>
                  name \in ListedNames(out'.triggers, store', LastCall'.ticker)]_vars

\* a trigger stays persisted and listed after an upsert or remove of another
\* name through a monitor that holds every persisted trigger of the ticker
\* under the spelling of the call
C30_TriggersPersistInSync ==
    [][(/\ LastCall'.call \in {"upsert", "remove"}
        /\ PersistedNames(store, "ACME")
               \subseteq {out.triggers[i].name :
                             i \in {j \in 1 .. Len(out.triggers) :
                                       out.triggers[j].ticker = LastCall'.ticker}}) =>
           \A name \in PersistedNames(store, "ACME") :
               /\ name \notin PersistedNames(store', "ACME") =>
                      (LastCall'.call = "remove" /\ LastCall'.name = name)
               /\ (LastCall'.call = "upsert" /\ LastCall'.name # name) =>
                      name \in ListedNames(out'.triggers, store', LastCall'.ticker)]_vars

\* an upsert, a new monitor, and an upsert of another name for the same ticker:
\* the store holds the second trigger only
C30_Witness ==
    /\ Len(args) = 3
    /\ args[1] = [call |-> "upsert", ticker |-> "ACME", name |-> "FCF margin"]
    /\ args[2].call = "TriggerMonitor"
    /\ args[3] = [call |-> "upsert", ticker |-> "ACME", name |-> "Net leverage"]
    /\ PersistedNames(store, "ACME") = {"Net leverage"}

============================================================================
